---- MODULE Spec2Model ----
(***************************************************************************)
(* Model of the compliance agent: the query_agent entry point, the eight   *)
(* workflow stages wired by create_agent_graph, the validation routing     *)
(* rule, and the memory manager (short-term buffer, long-term store, user  *)
(* profile) the stages read and write.                                     *)
(*                                                                         *)
(* The workflow state is the dict that query_agent builds and that every   *)
(* stage (and route_after_validation) mutates in place and returns; the    *)
(* model threads that one record through the stages exactly as the source  *)
(* is written.  Text is modelled as a tuple of one-character strings so    *)
(* that strip(), lower(), "in" and split() are computed, not assumed.      *)
(* Scores and confidences are integers in hundredths / tenths.             *)
(***************************************************************************)
EXTENDS Integers, Sequences, FiniteSets, TLC

VARIABLES
    pc,              \* node of the graph about to run ("idle" between runs)
    state,           \* the AgentState dict of the run in flight
    MEMORY_MANAGER,  \* the global memory manager (created flag + its fields)
    profile_file,    \* the persisted profile document (user_profile.json)
    call,            \* arguments of the current / last query_agent call
    outcome,         \* "none" | "running" | "returned" | "raised"
    result,          \* the dict query_agent returned last
    trace,           \* observation of the run in flight (not program state)
    env              \* what the collaborators may answer in this behaviour

vars == <<pc, state, MEMORY_MANAGER, profile_file, call, outcome, result, trace, env>>

----------------------------------------------------------------------------
(* Bounds of the exploration *)

MaxFailures == 2    \* stage exceptions explored per run

----------------------------------------------------------------------------
(* Text: tuples of one-character strings *)

Whitespace == {" ", "\t", "\n"}

UpperCase == <<"A","B","C","D","E","F","G","H","I","J","K","L","M",
               "N","O","P","Q","R","S","T","U","V","W","X","Y","Z">>
LowerCase == <<"a","b","c","d","e","f","g","h","i","j","k","l","m",
               "n","o","p","q","r","s","t","u","v","w","x","y","z">>

lowerChar(c) ==
    IF \E i \in 1..26 : UpperCase[i] = c
    THEN LowerCase[CHOOSE i \in 1..26 : UpperCase[i] = c]
    ELSE c

\* str.lower()
lower(s) == [i \in 1..Len(s) |-> lowerChar(s[i])]

\* str.strip(): drop leading and trailing whitespace
RECURSIVE lstrip(_)
lstrip(s) == IF s # <<>> /\ Head(s) \in Whitespace THEN lstrip(Tail(s)) ELSE s

RECURSIVE rstrip(_)
rstrip(s) == IF s # <<>> /\ s[Len(s)] \in Whitespace THEN rstrip(SubSeq(s, 1, Len(s) - 1)) ELSE s

strip(s) == rstrip(lstrip(s))

\* sub in s
contains(s, sub) ==
    \E i \in 1..(Len(s) - Len(sub) + 1) : SubSeq(s, i, i + Len(sub) - 1) = sub

\* s.startswith(p)
startswith(s, p) == Len(s) >= Len(p) /\ SubSeq(s, 1, Len(p)) = p

----------------------------------------------------------------------------
(* Inputs: queries, generated answers, validator output *)

\* user queries offered to query_agent
Q_empty  == <<>>
Q_blank  == <<" ", " ", " ", " ", " ", " ">>
Q_short  == <<"a", "b", "c", "d">>
Q_padded == <<" ", " ", "a", "b", "c", " ", " ">>
Q_plain  == <<" ", "W", "h", "a", "t", " ", "i", "s", " ", "A", "I", "?">>
Q_recall == <<"W", "h", "a", "t", " ", "d", "i", "d", " ", "w", "e", " ", "s", "a", "y">>

Queries == {Q_empty, Q_blank, Q_short, Q_padded, Q_plain, Q_recall}

\* variant: the length test applied to the raw query
query_is_valid_unstripped(user_query) ==
    ~(user_query = <<>> \/ Len(user_query) < 5)

\* main.py:184  "if not user_query or len(user_query.strip()) < 5: raise"
MinQueryLen == 5
query_is_valid(user_query) ==
    ~(user_query = <<>> \/ Len(strip(user_query)) < MinQueryLen)

\* An answer text is kept as the observations the stages make of it:
\* whether it looks like JSON, its length, and its count of "[Source:" tags.
EmptyAnswer == [json_like |-> FALSE, length |-> 0,   citation_count |-> 0]
ErrorAnswer == [json_like |-> FALSE, length |-> 30,  citation_count |-> 0]
Answers ==
    { [json_like |-> FALSE, length |-> 600, citation_count |-> 2],
      [json_like |-> TRUE,  length |-> 150, citation_count |-> 0] }

\* citation_quality is a free string in ValidationResult; "Average" stands
\* for any answer of the validator outside the four documented tiers.
Tiers == {"Excellent", "Good", "Fair", "Poor"}
TierStrings == Tiers \cup {"Average"}
Decisions == {"continue", "loop_to_intent", "loop_to_retrieval"}

N_missing == <<"M", "i", "s", "s", "i", "n", "g", " ", "s", "c", "o", "p", "e">>
N_weak    == <<"w", "e", "a", "k">>
StructuredNotes == {N_missing, N_weak}

\* texts written by the code itself, abbreviated
N_none      == <<>>
N_json      == <<"j", "s", "o", "n", " ", "f", "o", "r", "m", "a", "t">>
N_memory    == <<"f", "r", "o", "m", " ", "m", "e", "m", "o", "r", "y">>
N_general   == <<"g", "e", "n", "e", "r", "a", "l">>
N_not_cited == <<"n", "o", "t", " ", "c", "i", "t", "e", "d">>
N_few       == <<"f", "e", "w", " ", "c", "i", "t", "a", "t", "i", "o", "n", "s">>
N_adequate  == <<"a", "d", "e", "q", "u", "a", "t", "e">>
N_full      == <<"c", "o", "m", "p", "r", "e", "h", "e", "n", "s", "i", "v", "e">>
N_failed    == <<"V", "a", "l", "i", "d", "a", "t", "i", "o", "n", " ", "f", "a", "i", "l", "e", "d">>

\* unsupported_claims lists the structured validator may return
ClaimLists == { <<>>, <<"c1">>, <<"c1", "c2", "c3", "c4", "c5", "c6">> }

\* step4:65  result.unsupported_claims[:5]
MaxUnsupportedClaims == 5
Take(s, n) == SubSeq(s, 1, IF Len(s) < n THEN Len(s) ELSE n)

----------------------------------------------------------------------------
(* User profile: schemas/profile.py and user_profile.py *)

\* Python's None for an Optional[str]; a text never equals it
PyNone == <<"None">>

F_name     == <<"n", "a", "m", "e">>
F_role     == <<"r", "o", "l", "e">>
F_company  == <<"c", "o", "m", "p", "a", "n", "y">>
F_location == <<"l", "o", "c", "a", "t", "i", "o", "n">>
F_industry == <<"i", "n", "d", "u", "s", "t", "r", "y">>

\* PersonalInfo: the attributes hasattr() finds (last_updated is a timestamp
\* and is left out of the model together with the other timestamps)
PersonalInfoFields == {F_name, F_role, F_company, F_location, F_industry}

PersonalInfo == [f \in PersonalInfoFields |-> PyNone]

\* Preference(preference_type, value, confidence, occurrences); confidence in tenths
DefaultOccurrences == 1
Preference(preference_type, value, confidence) ==
    [preference_type |-> preference_type, value |-> value,
     confidence |-> confidence, occurrences |-> DefaultOccurrences]

Expertise(domain, skill_level, context) ==
    [domain |-> domain, skill_level |-> skill_level, context |-> context]

\* UserProfile()
UserProfile == [personal_info |-> PersonalInfo, preferences |-> <<>>, expertise |-> <<>>]

ExtractedFact(category, field, value, confidence) ==
    [category |-> category, field |-> field, value |-> value, confidence |-> confidence]

\* the persisted document: absent, a readable profile, or unreadable
NoFile == [status |-> "absent", doc |-> UserProfile]
SavedFile(profile) == [status |-> "ok", doc |-> profile]

\* a file that exists but does not hold a profile document: cut short,
\* not JSON, or JSON of another shape
UnreadableFile(bytes) == [status |-> "unreadable", doc |-> bytes]

\* the load without its try: whatever the file holds is taken for the profile
_load_profile_unguarded(file) == IF file.status = "absent" THEN UserProfile ELSE file.doc

\* UserProfileManager._load_profile
_load_profile(file) == IF file.status = "ok" THEN file.doc ELSE UserProfile

\* open(path, "r+") in place of open(path, "w"): writes only over a document
\* that already exists
_save_profile_over_existing(profile, file, save_ok) ==
    IF save_ok /\ file.status = "ok" THEN SavedFile(profile) ELSE file

\* UserProfileManager._save_profile: rewrites the whole document; an I/O
\* error is printed and swallowed, leaving the document as it was
_save_profile(profile, file, save_ok) == IF save_ok THEN SavedFile(profile) ELSE file

\* "x or []" and truthiness of an Optional[str]
Truthy(v) == v # PyNone /\ v # <<>>

\* any(v.lower() == value_lower for v in current_values): iterating a str
\* yields its characters
any_equal_lower(current_values, value) ==
    \E i \in 1..Len(current_values) : lower(<<current_values[i]>>) = lower(value)

\* variant: a new value is assigned to the field in place of what it held
add_personal_info_value_overwriting(profile, file, field, value, save_ok) ==
    IF field \notin PersonalInfoFields
    THEN [profile |-> profile, file |-> file, ret |-> "False"]
    ELSE LET stored == profile.personal_info[field]
             current_values == IF Truthy(stored) THEN stored ELSE <<>>
             assigned == [profile EXCEPT !.personal_info[field] = value]
         IN  IF ~any_equal_lower(current_values, value)
             THEN [profile |-> assigned,
                   file |-> _save_profile(assigned, file, save_ok),
                   ret |-> "True"]
             ELSE [profile |-> profile, file |-> file, ret |-> "False"]

\* UserProfileManager.add_personal_info_value
\* ret: "True" | "False" | "raise" (str has no append)
add_personal_info_value(profile, file, field, value, save_ok) ==
    IF field \notin PersonalInfoFields
    THEN [profile |-> profile, file |-> file, ret |-> "False"]
    ELSE LET stored == profile.personal_info[field]
             current_values == IF Truthy(stored) THEN stored ELSE <<>>
         IN  IF ~any_equal_lower(current_values, value)
             THEN IF Truthy(stored)
                  THEN [profile |-> profile, file |-> file, ret |-> "raise"]
                  \* the value went into the local list "[]" only; the
                  \* attribute of personal_info is never assigned
                  ELSE [profile |-> profile,
                        file |-> _save_profile(profile, file, save_ok),
                        ret |-> "True"]
             ELSE [profile |-> profile, file |-> file, ret |-> "False"]

MaxConfidence == 10
ConfidenceStep == 1

\* index of the first preference of that type, 0 if none
find_preference(preferences, preference_type) ==
    IF \E i \in 1..Len(preferences) : preferences[i].preference_type = preference_type
    THEN CHOOSE i \in 1..Len(preferences) :
            /\ preferences[i].preference_type = preference_type
            /\ \A j \in 1..(i - 1) : preferences[j].preference_type # preference_type
    ELSE 0

\* variant: the raised confidence is not capped
add_or_update_preference_uncapped(profile, file, preference_type, value, confidence, save_ok) ==
    LET i == find_preference(profile.preferences, preference_type)
        updated(p) == [p EXCEPT !.value = value, !.confidence = p.confidence + ConfidenceStep,
                                !.occurrences = p.occurrences + 1]
        newprofile ==
            IF i # 0
            THEN [profile EXCEPT !.preferences[i] = updated(profile.preferences[i])]
            ELSE [profile EXCEPT !.preferences =
                     Append(@, Preference(preference_type, value, confidence))]
    IN  [profile |-> newprofile, file |-> _save_profile(newprofile, file, save_ok)]

\* UserProfileManager.add_or_update_preference
add_or_update_preference(profile, file, preference_type, value, confidence, save_ok) ==
    LET i == find_preference(profile.preferences, preference_type)
        bumped(p) == IF p.confidence + ConfidenceStep > MaxConfidence
                     THEN MaxConfidence ELSE p.confidence + ConfidenceStep
        updated(p) == [p EXCEPT !.value = value, !.confidence = bumped(p),
                                !.occurrences = p.occurrences + 1]
        newprofile ==
            IF i # 0
            THEN [profile EXCEPT !.preferences[i] = updated(profile.preferences[i])]
            ELSE [profile EXCEPT !.preferences =
                     Append(@, Preference(preference_type, value, confidence))]
    IN  [profile |-> newprofile, file |-> _save_profile(newprofile, file, save_ok)]

find_expertise(expertise, domain) ==
    IF \E i \in 1..Len(expertise) : lower(expertise[i].domain) = lower(domain)
    THEN CHOOSE i \in 1..Len(expertise) :
            /\ lower(expertise[i].domain) = lower(domain)
            /\ \A j \in 1..(i - 1) : lower(expertise[j].domain) # lower(domain)
    ELSE 0

\* UserProfileManager.add_or_update_expertise
add_or_update_expertise(profile, file, domain, skill_level, context, save_ok) ==
    LET i == find_expertise(profile.expertise, domain)
        updated(e) == [e EXCEPT !.skill_level = skill_level,
                                !.context = IF Truthy(context) THEN context ELSE e.context]
        newprofile ==
            IF i # 0
            THEN [profile EXCEPT !.expertise[i] = updated(profile.expertise[i])]
            ELSE [profile EXCEPT !.expertise =
                     Append(@, Expertise(domain, skill_level, context))]
    IN  [profile |-> newprofile, file |-> _save_profile(newprofile, file, save_ok)]

\* value.split(":", 1)
index_of(s, c) ==
    IF \E i \in 1..Len(s) : s[i] = c
    THEN CHOOSE i \in 1..Len(s) : s[i] = c /\ \A j \in 1..(i - 1) : s[j] # c
    ELSE 0

\* str.rsplit in place of str.split: cuts at the last separator
split_at_last(s, c) ==
    LET last == IF \E i \in 1..Len(s) : s[i] = c
                THEN CHOOSE i \in 1..Len(s) : s[i] = c /\ \A j \in (i + 1)..Len(s) : s[j] # c
                ELSE 0
    IN  IF last = 0 THEN <<s>> ELSE <<SubSeq(s, 1, last - 1), SubSeq(s, last + 1, Len(s))>>

split_once(s, c) ==
    LET i == index_of(s, c)
    IN  IF i = 0 THEN <<s>> ELSE <<SubSeq(s, 1, i - 1), SubSeq(s, i + 1, Len(s))>>

T_intermediate == <<"i", "n", "t", "e", "r", "m", "e", "d", "i", "a", "t", "e">>
C_personal_info == "personal_info"
C_preference    == "preference"
C_expertise     == "expertise"

\* UserProfileManager.apply_extracted_facts, as a fold over the facts.
\* acc: [profile, file, updated, conflicts, raised]
apply_one_fact(acc, fact, save_ok) ==
    IF fact.category = C_personal_info
    THEN LET stored == IF fact.field \in PersonalInfoFields
                       THEN acc.profile.personal_info[fact.field] ELSE <<>>
             current_values == IF Truthy(stored) THEN stored ELSE <<>>
             is_new == ~any_equal_lower(current_values, fact.value)
             conflicts == IF Truthy(stored) /\ is_new
                          THEN Append(acc.conflicts,
                                 [field |-> fact.field, existing |-> stored, new |-> fact.value])
                          ELSE acc.conflicts
             r == add_personal_info_value(acc.profile, acc.file, fact.field, fact.value, save_ok)
         IN  IF r.ret = "raise"
             THEN [acc EXCEPT !.conflicts = conflicts, !.raised = TRUE]
             ELSE [acc EXCEPT !.profile = r.profile, !.file = r.file,
                              !.conflicts = conflicts,
                              !.updated = IF r.ret = "True"
                                          THEN Append(@, <<C_personal_info, fact.field, fact.value>>)
                                          ELSE @]
    ELSE IF fact.category = C_preference
    THEN LET r == add_or_update_preference(acc.profile, acc.file, fact.field,
                                           fact.value, fact.confidence, save_ok)
         IN  [acc EXCEPT !.profile = r.profile, !.file = r.file,
                         !.updated = Append(@, <<C_preference, fact.field, fact.value>>)]
    ELSE IF fact.category = C_expertise
    THEN LET parts == split_once(fact.value, ":")
             skill_level == IF Len(parts) = 2 THEN strip(parts[1]) ELSE T_intermediate
             context == IF Len(parts) = 2 THEN strip(parts[2]) ELSE fact.value
             r == add_or_update_expertise(acc.profile, acc.file, fact.field,
                                          skill_level, context, save_ok)
         IN  [acc EXCEPT !.profile = r.profile, !.file = r.file,
                         !.updated = Append(@, <<C_expertise, fact.field, skill_level>>)]
    ELSE acc

RECURSIVE apply_facts_from(_, _, _)
apply_facts_from(acc, facts, save_ok) ==
    IF facts = <<>> \/ acc.raised
    THEN acc
    ELSE apply_facts_from(apply_one_fact(acc, Head(facts), save_ok), Tail(facts), save_ok)

apply_extracted_facts(profile, file, facts, save_ok) ==
    apply_facts_from([profile |-> profile, file |-> file, updated |-> <<>>,
                      conflicts |-> <<>>, raised |-> FALSE],
                     facts, save_ok)

----------------------------------------------------------------------------
(* Memory manager: memory/base.py, custom_manager.py, mem0_manager.py *)

ShortTermSize == 10

\* A manager object; created = FALSE is MEMORY_MANAGER = None.
\* backend_ok is "self.semantic_memory" / "self.client" being set.
NoManager ==
    [created |-> FALSE, backend |-> "none", backend_ok |-> FALSE,
     short_term_size |-> ShortTermSize, short_term_memory |-> <<>>,
     disable_short_term |-> FALSE, semantic_memory |-> <<>>,
     profile |-> UserProfile]

\* get_memory_manager: returns the global if set, else constructs the
\* backend chosen by use_custom_memory; the constructor loads the profile
get_memory_manager(mm, file, use_custom_memory, backend_ok) ==
    IF mm.created
    THEN mm
    ELSE [created |-> TRUE,
          backend |-> IF use_custom_memory THEN "custom" ELSE "mem0",
          backend_ok |-> backend_ok,
          short_term_size |-> ShortTermSize, short_term_memory |-> <<>>,
          disable_short_term |-> FALSE,
          semantic_memory |-> <<>>,
          profile |-> _load_profile(file)]

\* deque.appendleft in place of deque.append: the newest turn goes to the
\* front and the turn at the back is the one dropped
add_to_short_term_at_front(mm, user_message, agent_response) ==
    LET turn == [user |-> user_message, agent |-> agent_response]
        buf == mm.short_term_memory
    IN  [mm EXCEPT !.short_term_memory =
            IF mm.short_term_size = 0
            THEN buf
            ELSE IF Len(buf) >= mm.short_term_size
            THEN <<turn>> \o SubSeq(buf, 1, Len(buf) - 1)
            ELSE <<turn>> \o buf]

\* BaseMemoryManager.add_to_short_term: append to deque(maxlen=short_term_size)
add_to_short_term(mm, user_message, agent_response) ==
    LET turn == [user |-> user_message, agent |-> agent_response]
        buf == mm.short_term_memory
    IN  [mm EXCEPT !.short_term_memory =
            IF mm.short_term_size = 0
            THEN buf
            ELSE IF Len(buf) >= mm.short_term_size
            THEN Append(Tail(buf), turn)
            ELSE Append(buf, turn)]

\* BaseMemoryManager.clear_short_term
clear_short_term(mm) == [mm EXCEPT !.short_term_memory = <<>>]

\* an assignment that also empties the buffer when the flag is set
set_disable_short_term_clearing(mm, flag) ==
    [mm EXCEPT !.disable_short_term = flag,
               !.short_term_memory = IF flag THEN <<>> ELSE @]

\* memory_manager.disable_short_term = flag
set_disable_short_term(mm, flag) == [mm EXCEPT !.disable_short_term = flag]

\* BaseMemoryManager.get_short_term_context: the default text (<<>>) or one
\* rendered entry per turn, the agent text cut to 200 characters
ContextAgentChars == 200
NoRecentHistory == <<>>
get_short_term_context(mm, skip_if_disabled) ==
    IF skip_if_disabled /\ mm.disable_short_term
    THEN NoRecentHistory
    ELSE [i \in 1..Len(mm.short_term_memory) |->
            LET msg == mm.short_term_memory[i]
            IN  [user |-> msg.user,
                 agent_chars |-> IF msg.agent.length > ContextAgentChars
                                 THEN ContextAgentChars ELSE msg.agent.length,
                 ellipsis |-> msg.agent.length > ContextAgentChars]]

\* store_conversation of both backends: the id returned and the store after.
\* add_ok is the backend call (add_documents / client.add) not raising.
store_conversation(mm, user_message, agent_response, metadata, add_ok) ==
    IF ~mm.backend_ok
    THEN [mm |-> mm,
          ret |-> IF mm.backend = "custom" THEN "failed_init" ELSE "failed_client_init"]
    ELSE IF add_ok
    THEN [mm |-> [mm EXCEPT !.semantic_memory =
                    Append(@, [user_message |-> user_message,
                               agent_response |-> agent_response,
                               metadata |-> metadata])],
          ret |-> IF mm.backend = "custom" THEN "conv_id" ELSE "stored"]
    ELSE [mm |-> mm, ret |-> "error"]

\* CustomMemoryManager.retrieve_relevant_memories.  Scores are kept exact:
\* relevance and importance in tenths, recency in thirtieths, the hybrid
\* score in units of 1/ScoreOne.
relevance_weight  == 5
recency_weight    == 3
importance_weight == 2
DecayDays == 30
ScoreOne == 10 * 10 * DecayDays

\* a timestamp as retrieval sees it: whether datetime.fromisoformat accepts
\* it and takes part in the subtraction, and (now - timestamp).days
Timestamp(days_old) == [parsed |-> TRUE, days_old |-> days_old]
BadTimestamp == [parsed |-> FALSE, days_old |-> 0]

\* the decay without its floor at zero
recency_score_unclamped(timestamp) ==
    IF timestamp.parsed THEN DecayDays - timestamp.days_old ELSE 0

\* max(0, 1 - days_old / 30), or 0.0 when the timestamp does not parse
recency_score(timestamp) ==
    IF timestamp.parsed
    THEN IF DecayDays - timestamp.days_old > 0 THEN DecayDays - timestamp.days_old ELSE 0
    ELSE 0

importance_score(quality) ==
    CASE quality = "Excellent" -> 10
      [] quality = "Good"      -> 8
      [] quality = "Fair"      -> 6
      [] quality = "Poor"      -> 4
      [] OTHER                 -> 5

hybrid_score(relevance, recency, importance) ==
    relevance * relevance_weight * DecayDays
      + recency * recency_weight * 10
      + importance * importance_weight * DecayDays

\* list.sort(key=hybrid_score, reverse=True): stable, equal keys keep
\* their order
sorted_insert(sorted, x) ==
    LET p == Cardinality({ i \in 1..Len(sorted) : sorted[i].hybrid_score >= x.hybrid_score })
    IN  SubSeq(sorted, 1, p) \o <<x>> \o SubSeq(sorted, p + 1, Len(sorted))

RECURSIVE sort_by_hybrid_score(_)
sort_by_hybrid_score(s) ==
    IF s = <<>>
    THEN <<>>
    ELSE sorted_insert(sort_by_hybrid_score(SubSeq(s, 1, Len(s) - 1)), s[Len(s)])

scored_memory(doc) ==
    [user_message |-> doc.user_message,
     timestamp |-> doc.timestamp,
     relevance_score |-> doc.relevance,
     hybrid_score |-> hybrid_score(doc.relevance, recency_score(doc.timestamp),
                                   importance_score(doc.citation_quality))]

\* the slice taken before the sort instead of after it
retrieve_first_k_then_sort(mm, ranking, k, search_ok) ==
    IF ~mm.backend_ok \/ ~search_ok
    THEN <<>>
    ELSE LET results == Take(ranking, k * 2)
             scored_memories == [i \in 1..Len(results) |-> scored_memory(results[i])]
         IN  sort_by_hybrid_score(Take(scored_memories, k))

\* ranking: what the store's similarity search would return without a
\* limit; search_ok: the search did not raise
retrieve_relevant_memories(mm, ranking, k, search_ok) ==
    IF ~mm.backend_ok \/ ~search_ok
    THEN <<>>
    ELSE LET results == Take(ranking, k * 2)
             scored_memories == [i \in 1..Len(results) |-> scored_memory(results[i])]
         IN  Take(sort_by_hybrid_score(scored_memories), k)

\* get_relevant_memories_context: the heading of the text and the entries
\* under it
M_none       == "No relevant past information found."
M_long_term  == "## What I Remember"
M_short_term == "## Recent Conversation History"

\* the fallback taken whatever the flag says
get_relevant_memories_context_ignoring_flag(mm, memories) ==
    IF memories = <<>>
    THEN IF mm.short_term_memory # <<>>
         THEN [heading |-> M_short_term, entries |-> get_short_term_context(mm, FALSE)]
         ELSE [heading |-> M_none, entries |-> <<>>]
    ELSE [heading |-> M_long_term,
          entries |-> [i \in 1..Len(memories) |->
                         [text |-> memories[i].user_message,
                          date |-> memories[i].timestamp,
                          relevance |-> memories[i].hybrid_score]]]

get_relevant_memories_context(mm, memories) ==
    IF memories = <<>>
    THEN IF ~mm.disable_short_term /\ mm.short_term_memory # <<>>
         THEN [heading |-> M_short_term, entries |-> get_short_term_context(mm, FALSE)]
         ELSE [heading |-> M_none, entries |-> <<>>]
    ELSE [heading |-> M_long_term,
          entries |-> [i \in 1..Len(memories) |->
                         [text |-> memories[i].user_message,
                          date |-> memories[i].timestamp,
                          relevance |-> memories[i].hybrid_score]]]

\* what a search over the store of a run returns: its conversations, each
\* stored today and half relevant, or nothing
StoredRanking(mm, memories_found) ==
    IF memories_found
    THEN [i \in 1..Len(mm.semantic_memory) |->
            [user_message |-> mm.semantic_memory[i].user_message,
             timestamp |-> Timestamp(0),
             relevance |-> 5,
             citation_quality |-> mm.semantic_memory[i].metadata.citation_quality]]
    ELSE <<>>

DefaultK == 5

\* get_relevant_profile_info, by whether any profile text exists
P_none == "No user profile information available yet."
P_some == "profile"
get_relevant_profile_info(profile) ==
    IF /\ \A f \in PersonalInfoFields : ~Truthy(profile.personal_info[f])
       /\ profile.preferences = <<>>
       /\ profile.expertise = <<>>
    THEN P_none
    ELSE P_some

----------------------------------------------------------------------------
(* Workflow state and graph: main.py *)

\* variant: the first pass is counted as a loop
initial_state_counting_first_pass(user_query, auto_approve, skip_memory) ==
    [user_query |-> user_query,
     intent_analysis |-> "",
     query_type |-> "",
     missing_context |-> <<>>,
     user_context |-> <<>>,
     user_profile |-> "",
     retrieved_chunks |-> <<>>,
     retrieval_scores |-> <<>>,
     relevant_memories |-> "",
     structured_answer |-> EmptyAnswer,
     validation_notes |-> N_none,
     citation_quality |-> "",
     unsupported_claims |-> <<>>,
     follow_up_questions |-> <<>>,
     human_approved |-> FALSE,
     human_feedback |-> "",
     conversation_stored |-> FALSE,
     conversation_id |-> "",
     extracted_facts |-> <<>>,
     profile_updated |-> FALSE,
     profile_conflicts |-> <<>>,
     final_response |-> "",
     intermediate_steps |-> <<>>,
     validation_decision |-> "continue",
     loop_count |-> 1,
     previous_citation_quality |-> "",
     loop_reason |-> "",
     auto_approve |-> auto_approve,
     skip_memory |-> skip_memory]

\* main.py:187-217
initial_state(user_query, auto_approve, skip_memory) ==
    [user_query |-> user_query,
     intent_analysis |-> "",
     query_type |-> "",
     missing_context |-> <<>>,
     user_context |-> <<>>,
     user_profile |-> "",
     retrieved_chunks |-> <<>>,
     retrieval_scores |-> <<>>,
     relevant_memories |-> "",
     structured_answer |-> EmptyAnswer,
     validation_notes |-> N_none,
     citation_quality |-> "",
     unsupported_claims |-> <<>>,
     follow_up_questions |-> <<>>,
     human_approved |-> FALSE,
     human_feedback |-> "",
     conversation_stored |-> FALSE,
     conversation_id |-> "",
     extracted_facts |-> <<>>,
     profile_updated |-> FALSE,
     profile_conflicts |-> <<>>,
     final_response |-> "",
     intermediate_steps |-> <<>>,
     validation_decision |-> "continue",
     loop_count |-> 0,
     previous_citation_quality |-> "",
     loop_reason |-> "",
     auto_approve |-> auto_approve,
     skip_memory |-> skip_memory]

\* no run in flight
NoState == initial_state(<<>>, FALSE, FALSE)

Nodes == {"analyze_intent", "retrieve_documents", "synthesize_answer",
          "validate_response", "generate_followups", "human_approval",
          "store_conversation", "extract_facts"}

\* the step_name each node is wrapped with (main.py:63-86)
step_name(node) ==
    CASE node = "analyze_intent"     -> "Intent Analysis"
      [] node = "retrieve_documents" -> "Document Retrieval"
      [] node = "synthesize_answer"  -> "Answer Synthesis"
      [] node = "validate_response"  -> "Response Validation"
      [] node = "generate_followups" -> "Follow-up Generation"
      [] node = "human_approval"     -> "Human Approval"
      [] node = "store_conversation" -> "Store Conversation"
      [] node = "extract_facts"      -> "Extract Facts"

\* variant: human_approval wired straight to extract_facts
edge_skipping_store(node) ==
    CASE node = "analyze_intent"     -> "retrieve_documents"
      [] node = "retrieve_documents" -> "synthesize_answer"
      [] node = "synthesize_answer"  -> "validate_response"
      [] node = "validate_response"  -> "route"
      [] node = "generate_followups" -> "human_approval"
      [] node = "human_approval"     -> "extract_facts"
      [] node = "store_conversation" -> "extract_facts"
      [] node = "extract_facts"      -> "END"

\* main.py:88-110: the node that runs after `node`; validate_response is
\* followed by the router, extract_facts by END
edge(node) ==
    CASE node = "analyze_intent"     -> "retrieve_documents"
      [] node = "retrieve_documents" -> "synthesize_answer"
      [] node = "synthesize_answer"  -> "validate_response"
      [] node = "validate_response"  -> "route"
      [] node = "generate_followups" -> "human_approval"
      [] node = "human_approval"     -> "store_conversation"
      [] node = "store_conversation" -> "extract_facts"
      [] node = "extract_facts"      -> "END"

\* variant: "continue" mapped to a name that is not a node of the graph
path_map_misnamed_node(route) ==
    CASE route = "continue"          -> "followups"
      [] route = "loop_to_intent"    -> "analyze_intent"
      [] route = "loop_to_retrieval" -> "retrieve_documents"
      [] route = "max_loops_reached" -> "generate_followups"

\* main.py:95-104: the path map of the conditional edge
path_map(route) ==
    CASE route = "continue"          -> "generate_followups"
      [] route = "loop_to_intent"    -> "analyze_intent"
      [] route = "loop_to_retrieval" -> "retrieve_documents"
      [] route = "max_loops_reached" -> "generate_followups"

E_approval   == "Error during approval"

\* variant: a failed validation keeps the decision of the pass before
on_step_error_keeps_decision(st, name) ==
    LET logged == [st EXCEPT !.intermediate_steps = Append(@, <<"Error in", name>>)]
    IN  IF name = "Response Validation"
        THEN [logged EXCEPT !.citation_quality = "Unknown",
                            !.validation_notes = N_failed]
        ELSE IF name = "Human Approval"
        THEN [logged EXCEPT !.human_approved = FALSE,
                            !.human_feedback = E_approval]
        ELSE logged

\* _wrap_with_error_handling: the except branch, applied to the state as
\* the failing step left it
on_step_error(st, name) ==
    LET logged == [st EXCEPT !.intermediate_steps = Append(@, <<"Error in", name>>)]
    IN  IF name = "Response Validation"
        THEN [logged EXCEPT !.validation_decision = "continue",
                            !.citation_quality = "Unknown",
                            !.validation_notes = N_failed]
        ELSE IF name = "Human Approval"
        THEN [logged EXCEPT !.human_approved = FALSE,
                            !.human_feedback = E_approval]
        ELSE logged

\* variant: the exception is swallowed and nothing is recorded
_wrap_swallowing_errors(r, name) ==
    r.state

\* _wrap_with_error_handling: what the wrapped node returns, given what the
\* step did (r.raised: an exception left it, with the state as in r.state)
_wrap_with_error_handling(r, name) ==
    IF r.raised THEN on_step_error(r.state, name) ELSE r.state

MaxLoops == 2

\* variant: the loop counter is not compared with the maximum
route_without_cap(st) ==
    LET decision == st.validation_decision
    IN  IF decision \in {"loop_to_intent", "loop_to_retrieval"}
        THEN [state |-> [st EXCEPT !.loop_count = @ + 1], route |-> decision]
        ELSE [state |-> st, route |-> "continue"]

\* route_after_validation: the state after the call and the string returned
route_after_validation(st) ==
    LET decision == st.validation_decision
    IN  IF decision \in {"loop_to_intent", "loop_to_retrieval"}
        THEN LET counted == [st EXCEPT !.loop_count = @ + 1]
             IN  IF counted.loop_count > MaxLoops
                 THEN [state |-> counted, route |-> "max_loops_reached"]
                 ELSE [state |-> counted, route |-> decision]
        ELSE [state |-> st, route |-> "continue"]

----------------------------------------------------------------------------
(* Validation: steps/step4_validate_response.py *)

K_what_did_we      == <<"w", "h", "a", "t", " ", "d", "i", "d", " ", "w", "e">>
K_tell_me_about    == <<"t", "e", "l", "l", " ", "m", "e", " ", "a", "b", "o", "u", "t">>
K_do_you_remember  == <<"d", "o", " ", "y", "o", "u", " ", "r", "e", "m", "e", "m", "b", "e", "r">>
K_what_do_you_know == <<"w", "h", "a", "t", " ", "d", "o", " ", "y", "o", "u", " ", "k", "n", "o", "w">>
K_our_conversation == <<"o", "u", "r", " ", "c", "o", "n", "v", "e", "r", "s", "a", "t", "i", "o", "n">>
conversational_keywords ==
    {K_what_did_we, K_tell_me_about, K_do_you_remember, K_what_do_you_know, K_our_conversation}

K_missing == <<"m", "i", "s", "s", "i", "n", "g">>
LongAnswer == 100

\* step4:61-65, the structured validator answered
\* the validator's list stored whole
structured_validation_unsliced(st, tier, notes, claims) ==
    [st EXCEPT !.citation_quality = tier,
               !.validation_notes = notes,
               !.unsupported_claims = claims]

structured_validation(st, tier, notes, claims) ==
    [st EXCEPT !.citation_quality = tier,
               !.validation_notes = notes,
               !.unsupported_claims = Take(claims, MaxUnsupportedClaims)]

\* step4:67-105, the except branch.  The third test reads the local
\* no_documents, which is assigned only at line 128: reaching that test
\* raises UnboundLocalError out of the step, so the citation-count branches
\* below it never run.
heuristic_validation(st) ==
    LET answer == st.structured_answer
        is_conversational ==
            \E keyword \in conversational_keywords : contains(lower(st.user_query), keyword)
    IN  IF answer.json_like
        THEN [raised |-> FALSE,
              state |-> [st EXCEPT !.citation_quality = "Poor",
                                   !.validation_notes = N_json,
                                   !.unsupported_claims = <<"Entire answer is JSON formatted">>]]
        ELSE IF is_conversational /\ answer.length > LongAnswer
        THEN [raised |-> FALSE,
              state |-> [st EXCEPT !.citation_quality = "Good",
                                   !.validation_notes = N_memory,
                                   !.unsupported_claims = <<>>]]
        ELSE [raised |-> TRUE, state |-> st]

\* variant: the ordinals run the other way
quality_order_reversed(q) ==
    CASE q = "Poor" -> 3 [] q = "Fair" -> 2 [] q = "Good" -> 1 [] q = "Excellent" -> 0
      [] OTHER -> 0

\* step4:122  quality_order.get(q, 0)

quality_order(q) ==
    CASE q = "Poor" -> 0 [] q = "Fair" -> 1 [] q = "Good" -> 2 [] q = "Excellent" -> 3
      [] OTHER -> 0

\* variant: any change of tier counts as an improvement
improved_any_change(citation_quality, previous_quality) ==
    IF previous_quality # ""
    THEN quality_order(citation_quality) # quality_order(previous_quality)
    ELSE FALSE

\* step4:126
improved(citation_quality, previous_quality) ==
    IF previous_quality # ""
    THEN quality_order(citation_quality) > quality_order(previous_quality)
    ELSE FALSE

\* variant: an answer without citations is taken to have unsupported claims
has_unsupported_by_citations(st) ==
    st.structured_answer.citation_count = 0

\* step4:148
has_unsupported(st) ==
    Len(st.unsupported_claims) > 0

\* variant: the notes are searched without being lower-cased
loop_target_case_sensitive(st) ==
    IF contains(st.validation_notes, K_missing) \/ ~has_unsupported(st)
    THEN [st EXCEPT !.validation_decision = "loop_to_intent",
                    !.loop_reason = "Missing context"]
    ELSE [st EXCEPT !.validation_decision = "loop_to_retrieval",
                    !.loop_reason = "Need better sources for unsupported claims"]

\* the last branch of the rule: where to loop back to
loop_target(st) ==
    IF contains(lower(st.validation_notes), K_missing) \/ ~has_unsupported(st)
    THEN [st EXCEPT !.validation_decision = "loop_to_intent",
                    !.loop_reason = "Missing context"]
    ELSE [st EXCEPT !.validation_decision = "loop_to_retrieval",
                    !.loop_reason = "Need better sources for unsupported claims"]

\* variant: the test is made on the first pass only
no_documents_first_pass_only(st) ==
    Len(st.retrieved_chunks) = 0 /\ st.loop_count = 0

\* step4:128
no_documents(st) ==
    Len(st.retrieved_chunks) = 0

\* variant: Good is sent into the refinement branch as well
needs_refinement_below_excellent(citation_quality) ==
    citation_quality \in {"Poor", "Fair", "Good"}

\* step4:133  citation_quality in ["Poor", "Fair"]
needs_refinement(citation_quality) ==
    citation_quality \in {"Poor", "Fair"}

\* variant: the regression test starts one loop-back late
quality_degraded_after_second_loop(st) ==
    st.loop_count > 1 /\ ~improved(st.citation_quality, st.previous_citation_quality)

\* step4:143  state["loop_count"] > 0 and not improved
quality_degraded(st) ==
    st.loop_count > 0 /\ ~improved(st.citation_quality, st.previous_citation_quality)

\* variant: the rule without its stalled and regression tests
routing_rule_without_loop_guards(st) ==
    LET citation_quality == st.citation_quality
        decided ==
            IF citation_quality \in {"Poor", "Fair"}
            THEN IF no_documents(st)
                 THEN [st EXCEPT !.validation_decision = "continue",
                                 !.loop_reason = "No compliance documents found"]
                 ELSE loop_target(st)
            ELSE [st EXCEPT !.validation_decision = "continue",
                            !.loop_reason = "Validation passed"]
    IN  [decided EXCEPT !.previous_citation_quality = citation_quality]

\* step4:119-163, the routing decision written into the state
routing_rule(st) ==
    LET citation_quality == st.citation_quality
        previous_quality == st.previous_citation_quality
        same_quality_as_before == citation_quality = previous_quality /\ previous_quality # ""
        decided ==
            IF needs_refinement(citation_quality)
            THEN IF no_documents(st)
                 THEN [st EXCEPT !.validation_decision = "continue",
                                 !.loop_reason = "No compliance documents found"]
                 ELSE IF same_quality_as_before
                 THEN [st EXCEPT !.validation_decision = "continue",
                                 !.loop_reason = "Quality not improving"]
                 ELSE IF quality_degraded(st)
                 THEN [st EXCEPT !.validation_decision = "continue",
                                 !.loop_reason = "Quality degraded from previous attempt"]
                 ELSE loop_target(st)
            ELSE [st EXCEPT !.validation_decision = "continue",
                            !.loop_reason = "Validation passed"]
    IN  [decided EXCEPT !.previous_citation_quality = citation_quality]

\* step_4_validate_response.  structured = <<>> when the structured
\* validator raised, else <<tier, notes, claims>>
step_4_validate_response(st, structured) ==
    LET assessed == IF structured # <<>>
                    THEN [raised |-> FALSE,
                          state |-> structured_validation(st, structured[1], structured[2], structured[3])]
                    ELSE heuristic_validation(st)
    IN  IF assessed.raised
        THEN assessed
        ELSE [raised |-> FALSE, state |-> routing_rule(assessed.state)]

\* what the structured validator may do: raise (<<>>), or return a tier
\* with notes and claims
StructuredResults ==
    {<<>>} \cup { <<tier, notes, claims>> :
                    tier \in TierStrings, notes \in StructuredNotes, claims \in ClaimLists }

----------------------------------------------------------------------------
(* The other steps: steps/step1 .. step8 *)

\* step_1_analyze_intent.  llm: "structured" (with the missing_context it
\* returned), "fallback" (structured call raised, plain call answered) or
\* "raise" (both raised: the exception leaves the step)
IntentResults ==
    { [llm |-> "structured", missing_context |-> <<"deployment region">>],
      [llm |-> "fallback",   missing_context |-> <<>>],
      [llm |-> "raise",      missing_context |-> <<>>] }

\* the text a stage sent to its collaborator in the transition just taken
NoText == [kind |-> "none", user_query |-> <<>>, unsupported_claims |-> <<>>,
           validation_notes |-> <<>>, loop_reason |-> ""]

\* step1:26 and step2:14
is_loop_back(st, decision) == st.loop_count > 0 /\ st.validation_decision = decision

\* step1:31-107: the messages built for the model, by the prompt chosen and
\* the state fields it quotes
intent_prompt(st) ==
    IF is_loop_back(st, "loop_to_intent")
    THEN [kind |-> "feedback_prompt", user_query |-> st.user_query,
          unsupported_claims |-> st.unsupported_claims,
          validation_notes |-> st.validation_notes,
          loop_reason |-> st.loop_reason]
    ELSE [NoText EXCEPT !.kind = "few_shot_prompt", !.user_query = st.user_query]

\* the query extended with every unsupported claim
enhanced_query_with_all_claims(st) ==
    IF is_loop_back(st, "loop_to_retrieval")
    THEN IF st.unsupported_claims # <<>>
         THEN [NoText EXCEPT !.kind = "query_and_claims", !.user_query = st.user_query,
                             !.unsupported_claims = st.unsupported_claims]
         ELSE [NoText EXCEPT !.kind = "query_and_notes", !.user_query = st.user_query,
                             !.validation_notes = st.validation_notes]
    ELSE [NoText EXCEPT !.kind = "query", !.user_query = st.user_query]

\* step2:21-30: the query text, by its parts
enhanced_query(st) ==
    IF is_loop_back(st, "loop_to_retrieval")
    THEN IF st.unsupported_claims # <<>>
         THEN [NoText EXCEPT !.kind = "query_and_claims", !.user_query = st.user_query,
                             !.unsupported_claims = Take(st.unsupported_claims, 2)]
         ELSE [NoText EXCEPT !.kind = "query_and_notes", !.user_query = st.user_query,
                             !.validation_notes = st.validation_notes]
    ELSE [NoText EXCEPT !.kind = "query", !.user_query = st.user_query]

step_1_analyze_intent(st, mm, llm_result) ==
    LET read == [st EXCEPT !.user_context = get_short_term_context(mm, TRUE),
                           !.user_profile = get_relevant_profile_info(mm.profile)]
    IN  IF llm_result.llm = "structured"
        THEN [raised |-> FALSE,
              state |-> [read EXCEPT !.intent_analysis = "analysis",
                                     !.query_type = "definition",
                                     !.missing_context = llm_result.missing_context]]
        ELSE IF llm_result.llm = "fallback"
        THEN [raised |-> FALSE,
              state |-> [read EXCEPT !.intent_analysis = "Query analysis",
                                     !.query_type = "general",
                                     !.missing_context = <<>>]]
        ELSE [raised |-> TRUE, state |-> read]

\* step_2_retrieve_documents.  A search case gives the documents of the MMR
\* search (mmr_ok = FALSE: it raised), and the scored similarity results;
\* store_ok = FALSE is get_vector_store raising.  Scores in hundredths.
MinScoreThreshold == 30
SearchCases ==
    { [store_ok |-> FALSE, mmr_ok |-> FALSE, mmr |-> <<>>, scored |-> <<>>],
      [store_ok |-> TRUE,  mmr_ok |-> TRUE,  mmr |-> <<>>, scored |-> <<>>],
      [store_ok |-> TRUE,  mmr_ok |-> TRUE,  mmr |-> <<"d3", "d1", "d2">>,
       scored |-> << <<"d1", 50>>, <<"d2", 20>>, <<"d3", 40>> >>] }

Min(a, b) == IF a < b THEN a ELSE b

step_2_retrieve_documents(st, mm, search, memories_found) ==
    IF ~search.store_ok
    THEN [raised |-> TRUE, state |-> st]
    ELSE LET scores == [i \in 1..Len(search.scored) |-> search.scored[i][2]]
             results == IF search.mmr_ok
                        THEN search.mmr
                        ELSE [i \in 1..Len(search.scored) |-> search.scored[i][1]]
             n == Min(Len(results), Len(scores))
             rows == [i \in 1..n |-> [source |-> results[i], rank |-> i,
                                      relevance_score |-> scores[i]]]
             keep(row) == ~(row.relevance_score < MinScoreThreshold)
             retrieved_chunks == SelectSeq(rows, keep)
         IN  [raised |-> FALSE,
              state |-> [st EXCEPT !.retrieved_chunks = retrieved_chunks,
                                   !.retrieval_scores = Take(scores, Len(retrieved_chunks)),
                                   !.relevant_memories =
                                        get_relevant_memories_context(mm,
                                            retrieve_relevant_memories(mm,
                                                StoredRanking(mm, memories_found),
                                                DefaultK, TRUE)).heading]]

\* step_3_synthesize_answer: the model's text, or the error text when the
\* call raised inside the step's own try
step_3_synthesize_answer(st, answer) == [st EXCEPT !.structured_answer = answer]

\* step_5_generate_followups
FollowupResults == {"structured", "fallback", "raise"}
step_5_generate_followups(st, llm) ==
    IF st.missing_context = <<>> /\ st.unsupported_claims = <<>>
    THEN [raised |-> FALSE, state |-> [st EXCEPT !.follow_up_questions = <<>>]]
    ELSE IF llm = "structured"
    THEN [raised |-> FALSE, state |-> [st EXCEPT !.follow_up_questions = <<"q1", "q2">>]]
    ELSE IF llm = "fallback"
    THEN [raised |-> FALSE,
          state |-> [st EXCEPT !.follow_up_questions = Take(<<"q1", "q2", "q3", "q4">>, 3)]]
    ELSE [raised |-> TRUE, state |-> st]

\* step_6_human_approval.  typed = <<"EOF">> is input() raising.
I_yes     == <<"y", "e", "s">>
I_y       == <<"y">>
I_approve == <<"a", "p", "p", "r", "o", "v", "e">>
I_eof     == <<"EOF">>
\* input() was not called
NoInput   == <<"none">>
OperatorInputs == { <<"y">>, <<" ", "Y", "e", "s", " ">>, <<"n", "o">>, <<>>, I_eof }

Formatted == "formatted response"
H_auto     == "Auto-approved (testing mode)"
H_approved == "Approved"
H_rejected == "Rejected"
H_typed    == "typed feedback"

\* variant: an empty line is taken as approval
step_6_approving_by_default(st, typed) ==
    LET shown == [st EXCEPT !.final_response = Formatted]
    IN  IF st.auto_approve
        THEN [raised |-> FALSE,
              state |-> [shown EXCEPT !.human_approved = TRUE, !.human_feedback = H_auto]]
        ELSE IF typed = I_eof
        THEN [raised |-> TRUE, state |-> shown]
        ELSE LET user_input == lower(strip(typed))
             IN  IF user_input \in {I_yes, I_y, I_approve, <<>>}
                 THEN [raised |-> FALSE,
                       state |-> [shown EXCEPT !.human_approved = TRUE,
                                               !.human_feedback = H_approved]]
                 ELSE [raised |-> FALSE,
                       state |-> [shown EXCEPT !.human_approved = FALSE,
                                               !.human_feedback =
                                                   IF user_input # <<>> THEN H_typed ELSE H_rejected]]

\* step6:4-44
step_6_human_approval(st, typed) ==
    LET shown == [st EXCEPT !.final_response = Formatted]
    IN  IF st.auto_approve
        THEN [raised |-> FALSE,
              state |-> [shown EXCEPT !.human_approved = TRUE, !.human_feedback = H_auto]]
        ELSE IF typed = I_eof
        THEN [raised |-> TRUE, state |-> shown]
        ELSE LET user_input == lower(strip(typed))
             IN  IF user_input \in {I_yes, I_y, I_approve}
                 THEN [raised |-> FALSE,
                       state |-> [shown EXCEPT !.human_approved = TRUE,
                                               !.human_feedback = H_approved]]
                 ELSE [raised |-> FALSE,
                       state |-> [shown EXCEPT !.human_approved = FALSE,
                                               !.human_feedback =
                                                   IF user_input # <<>> THEN H_typed ELSE H_rejected]]

StoreResults == {"ok", "error", "raise"}

\* variant: the early return does not look at human_approved
step_7_ignoring_approval(st, mm, backend) ==
    IF ~mm.created \/ st.skip_memory
    THEN [raised |-> FALSE, mm |-> mm,
          state |-> [st EXCEPT !.conversation_stored = FALSE, !.conversation_id = ""]]
    ELSE LET remembered == add_to_short_term(mm, st.user_query, st.structured_answer)
             metadata == [query_type |-> st.query_type,
                          citation_quality |-> st.citation_quality,
                          loop_count |-> st.loop_count]
             stored == store_conversation(remembered, st.user_query, st.structured_answer,
                                          metadata, backend = "ok")
         IN  IF backend = "raise"
             THEN [raised |-> TRUE, mm |-> remembered, state |-> st]
             ELSE [raised |-> FALSE, mm |-> stored.mm,
                   state |-> [st EXCEPT !.conversation_stored = TRUE,
                                        !.conversation_id = stored.ret]]

\* step_7_store_conversation.  backend: "ok" | "error" (the backend call
\* raised and store_conversation returned "error") | "raise" (an exception
\* left store_conversation)
step_7_store_conversation(st, mm, backend) ==
    IF ~mm.created \/ st.skip_memory \/ ~st.human_approved
    THEN [raised |-> FALSE, mm |-> mm,
          state |-> [st EXCEPT !.conversation_stored = FALSE, !.conversation_id = ""]]
    ELSE LET remembered == add_to_short_term(mm, st.user_query, st.structured_answer)
             metadata == [query_type |-> st.query_type,
                          citation_quality |-> st.citation_quality,
                          loop_count |-> st.loop_count]
             stored == store_conversation(remembered, st.user_query, st.structured_answer,
                                          metadata, backend = "ok")
         IN  IF backend = "raise"
             THEN [raised |-> TRUE, mm |-> remembered, state |-> st]
             ELSE [raised |-> FALSE, mm |-> stored.mm,
                   state |-> [st EXCEPT !.conversation_stored = TRUE,
                                        !.conversation_id = stored.ret]]

\* variant: the early return looks at the manager only
step_8_ignoring_approval(st, mm, file, facts, save_ok) ==
    IF ~mm.created
    THEN [raised |-> FALSE, mm |-> mm, file |-> file,
          state |-> [st EXCEPT !.extracted_facts = <<>>, !.profile_updated = FALSE,
                               !.profile_conflicts = <<>>]]
    ELSE LET noted == [st EXCEPT !.extracted_facts = facts]
         IN  IF facts = <<>>
             THEN [raised |-> FALSE, mm |-> mm, file |-> file,
                   state |-> [noted EXCEPT !.profile_updated = FALSE,
                                           !.profile_conflicts = <<>>]]
             ELSE LET r == apply_extracted_facts(mm.profile, file, facts, save_ok)
                      applied == [mm EXCEPT !.profile = r.profile]
                  IN  IF r.raised
                      THEN [raised |-> TRUE, mm |-> applied, file |-> r.file, state |-> noted]
                      ELSE [raised |-> FALSE, mm |-> applied, file |-> r.file,
                            state |-> [noted EXCEPT !.profile_updated = Len(r.updated) > 0,
                                                    !.profile_conflicts = r.conflicts]]

\* step_8_extract_facts.  facts is what the extractor returned (<<>> also
\* when it raised)
V_brief    == <<"b", "r", "i", "e", "f">>
V_google   == <<"G", "o", "o", "g", "l", "e">>
V_advanced == <<"a", "d", "v", "a", "n", "c", "e", "d", ":", " ", "d", "a", "i", "l", "y", " ", "u", "s", "e">>
D_python   == <<"P", "y", "t", "h", "o", "n">>
PT_detail_level == <<"d", "e", "t", "a", "i", "l", "_", "l", "e", "v", "e", "l">>
DefaultFactConfidence == 8
FactLists ==
    { <<>>,
      << ExtractedFact(C_preference, PT_detail_level, V_brief, DefaultFactConfidence) >>,
      << ExtractedFact(C_expertise, D_python, V_advanced, DefaultFactConfidence),
         ExtractedFact(C_personal_info, F_company, V_google, DefaultFactConfidence) >> }

step_8_extract_facts(st, mm, file, facts, save_ok) ==
    IF ~st.human_approved \/ ~mm.created
    THEN [raised |-> FALSE, mm |-> mm, file |-> file,
          state |-> [st EXCEPT !.extracted_facts = <<>>, !.profile_updated = FALSE,
                               !.profile_conflicts = <<>>]]
    ELSE LET noted == [st EXCEPT !.extracted_facts = facts]
         IN  IF facts = <<>>
             THEN [raised |-> FALSE, mm |-> mm, file |-> file,
                   state |-> [noted EXCEPT !.profile_updated = FALSE,
                                           !.profile_conflicts = <<>>]]
             ELSE LET r == apply_extracted_facts(mm.profile, file, facts, save_ok)
                      applied == [mm EXCEPT !.profile = r.profile]
                  IN  IF r.raised
                      THEN [raised |-> TRUE, mm |-> applied, file |-> r.file, state |-> noted]
                      ELSE [raised |-> FALSE, mm |-> applied, file |-> r.file,
                            state |-> [noted EXCEPT !.profile_updated = Len(r.updated) > 0,
                                                    !.profile_conflicts = r.conflicts]]

----------------------------------------------------------------------------
(* The run: query_agent drives the compiled graph one node at a time *)

NoCall == [user_query |-> <<>>, auto_approve |-> FALSE, skip_memory |-> FALSE,
           use_custom_memory |-> FALSE]

NoResult == [loop_count |-> 0, citation_quality |-> "", human_approved |-> FALSE,
             conversation_stored |-> FALSE, conversation_id |-> "",
             unsupported_claims |-> <<>>, intermediate_steps |-> <<>>,
             extracted_facts |-> <<>>]

\* What is observed of a run: exceptions so far, the step that raised in
\* the last transition, the router's last return value, how often each node
\* ran, the citation_quality each validation pass left, backward
\* transitions taken, and the memory as it was when the run started.
NoTrace ==
    [failures |-> 0, failed |-> "", route |-> "",
     executed |-> [n \in Nodes |-> 0],
     tiers |-> <<>>, decisions |-> <<>>, loop_backs |-> 0,
     start |-> [mm |-> NoManager, file |-> NoFile],
     sent |-> NoText, typed |-> NoInput]

ran(node, raised) ==
    [trace EXCEPT !.executed[node] = @ + 1,
                  !.failed = IF raised THEN step_name(node) ELSE "",
                  !.failures = IF raised THEN @ + 1 ELSE @,
                  !.sent = NoText]

\* a node's transition: the wrapper's state, the fixed edge, the observation
NodeDone(node, r) ==
    /\ r.raised => trace.failures < MaxFailures
    /\ state' = _wrap_with_error_handling(r, step_name(node))
    /\ pc' = edge(node)

\* memory a process may hold when a call arrives: none yet, or the manager
\* left by an earlier approved exchange
EarlierAnswer == [json_like |-> FALSE, length |-> 600, citation_count |-> 2]
EarlierProfile ==
    [UserProfile EXCEPT !.preferences = << Preference(PT_detail_level, V_brief, DefaultFactConfidence) >>]
EarlierManager ==
    [created |-> TRUE, backend |-> "custom", backend_ok |-> TRUE,
     short_term_size |-> ShortTermSize,
     short_term_memory |-> << [user |-> Q_plain, agent |-> EarlierAnswer] >>,
     disable_short_term |-> FALSE,
     semantic_memory |-> << [user_message |-> Q_plain, agent_response |-> EarlierAnswer,
                             metadata |-> [query_type |-> "definition",
                                           citation_quality |-> "Good",
                                           loop_count |-> 0]] >>,
     profile |-> EarlierProfile]

\* a profile document written by hand: company given as a plain string
V_microsoft == <<"M", "i", "c", "r", "o", "s", "o", "f", "t">>
HandWrittenProfile == [UserProfile EXCEPT !.personal_info[F_company] = V_microsoft]

ManyClaims == <<"c1", "c2", "c3", "c4", "c5", "c6">>

\* The collaborators (models, index, operator, backends) answer freely; a
\* behaviour is explored under one of these repertoires.  LoopEnv gives the
\* stages of the validation cycle their whole range and the later stages
\* one nominal answer; TailEnv does the converse.
LoopEnv ==
    [intents     |-> IntentResults,
     searches    |-> SearchCases,
     answers     |-> Answers \cup {ErrorAnswer},
     validations |-> {<<>>} \cup { <<tier, N_weak, <<>> >> : tier \in TierStrings }
                      \cup { <<tier, N_weak, ManyClaims>> : tier \in {"Poor", "Fair"} },
     followups   |-> {"structured"},
     typed       |-> {I_y},
     stores      |-> {"ok"},
     facts       |-> {<<>>},
     saves       |-> {TRUE},
     backends    |-> {TRUE}]

TailEnv ==
    [intents     |-> { r \in IntentResults : r.llm = "structured" },
     searches    |-> { c \in SearchCases : c.scored # <<>> },
     answers     |-> { a \in Answers : ~a.json_like },
     validations |-> { <<"Good", N_weak, <<>> >>, <<"Poor", N_weak, ManyClaims>>,
                       <<"Fair", N_missing, <<"c1">> >> },
     followups   |-> FollowupResults,
     typed       |-> OperatorInputs,
     stores      |-> StoreResults,
     facts       |-> FactLists,
     saves       |-> BOOLEAN,
     backends    |-> BOOLEAN]

\* a process and its surroundings when the call arrives
Scenarios ==
    { [env |-> LoopEnv, mm |-> NoManager, file |-> NoFile],
      [env |-> TailEnv, mm |-> NoManager, file |-> NoFile],
      [env |-> TailEnv, mm |-> NoManager, file |-> SavedFile(HandWrittenProfile)],
      [env |-> TailEnv, mm |-> EarlierManager, file |-> SavedFile(EarlierProfile)] }

\* the calls offered: every query refused at entry, and the accepted
\* queries under each setting of auto_approve and skip_memory
Call(user_query, auto_approve, skip_memory, use_custom_memory) ==
    [user_query |-> user_query, auto_approve |-> auto_approve,
     skip_memory |-> skip_memory, use_custom_memory |-> use_custom_memory]
Calls ==
    { Call(q, FALSE, FALSE, FALSE) : q \in {Q_empty, Q_blank, Q_short, Q_padded} }
    \cup { Call(Q_plain, TRUE, FALSE, TRUE), Call(Q_plain, FALSE, FALSE, FALSE),
           Call(Q_recall, TRUE, TRUE, FALSE), Call(Q_recall, FALSE, TRUE, TRUE) }

Init ==
    /\ pc = "idle"
    /\ state = NoState
    /\ \E s \in Scenarios :
        /\ env = s.env
        /\ MEMORY_MANAGER = s.mm
        /\ profile_file = s.file
    /\ call = NoCall
    /\ outcome = "none"
    /\ result = NoResult
    /\ trace = NoTrace

\* query_agent up to agent.stream: main.py:171-224
QueryAgent ==
    /\ pc = "idle"
    /\ outcome = "none"
    /\ \E c \in Calls, backend_ok \in env.backends :
      LET user_query == c.user_query
          auto_approve == c.auto_approve
          skip_memory == c.skip_memory
          use_custom_memory == c.use_custom_memory
      IN
        /\ call' = c
        /\ IF ~query_is_valid(user_query)
           THEN /\ outcome' = "raised"
                /\ UNCHANGED <<pc, state, MEMORY_MANAGER, profile_file, result, trace, env>>
           ELSE /\ outcome' = "running"
                /\ MEMORY_MANAGER' = get_memory_manager(MEMORY_MANAGER, profile_file,
                                                        use_custom_memory, backend_ok)
                /\ state' = initial_state(user_query, auto_approve, skip_memory)
                /\ pc' = "analyze_intent"
                /\ trace' = [NoTrace EXCEPT !.start = [mm |-> MEMORY_MANAGER', file |-> profile_file]]
                /\ UNCHANGED <<profile_file, result, env>>

AnalyzeIntent ==
    /\ pc = "analyze_intent"
    /\ \E llm_result \in env.intents :
        LET r == step_1_analyze_intent(state, MEMORY_MANAGER, llm_result)
        IN  /\ NodeDone("analyze_intent", r)
            /\ trace' = [ran("analyze_intent", r.raised) EXCEPT !.sent = intent_prompt(r.state)]
    /\ UNCHANGED <<MEMORY_MANAGER, profile_file, call, outcome, result, env>>

RetrieveDocuments ==
    /\ pc = "retrieve_documents"
    /\ \E search \in env.searches, memories_found \in BOOLEAN :
        LET r == step_2_retrieve_documents(state, MEMORY_MANAGER, search, memories_found)
        IN  /\ NodeDone("retrieve_documents", r)
            /\ trace' = [ran("retrieve_documents", r.raised) EXCEPT
                            !.sent = IF search.store_ok THEN enhanced_query(state) ELSE NoText]
    /\ UNCHANGED <<MEMORY_MANAGER, profile_file, call, outcome, result, env>>

SynthesizeAnswer ==
    /\ pc = "synthesize_answer"
    /\ \E answer \in env.answers :
        LET r == [raised |-> FALSE, state |-> step_3_synthesize_answer(state, answer)]
        IN  /\ NodeDone("synthesize_answer", r)
            /\ trace' = ran("synthesize_answer", r.raised)
    /\ UNCHANGED <<MEMORY_MANAGER, profile_file, call, outcome, result, env>>

ValidateResponse ==
    /\ pc = "validate_response"
    /\ \E structured \in env.validations :
        LET r == step_4_validate_response(state, structured)
        IN  /\ NodeDone("validate_response", r)
            /\ trace' = [ran("validate_response", r.raised) EXCEPT
                            !.tiers = Append(@, state'.citation_quality),
                            !.decisions = Append(@, state'.validation_decision)]
    /\ UNCHANGED <<MEMORY_MANAGER, profile_file, call, outcome, result, env>>

\* the conditional edge after validate_response
Route ==
    /\ pc = "route"
    /\ LET r == route_after_validation(state)
       IN  /\ state' = r.state
           /\ pc' = path_map(r.route)
           /\ trace' = [trace EXCEPT !.route = r.route, !.failed = "",
                           !.loop_backs = IF path_map(r.route) \in {"analyze_intent", "retrieve_documents"}
                                          THEN @ + 1 ELSE @]
    /\ UNCHANGED <<MEMORY_MANAGER, profile_file, call, outcome, result, env>>

GenerateFollowups ==
    /\ pc = "generate_followups"
    /\ \E llm \in env.followups :
        LET r == step_5_generate_followups(state, llm)
        IN  /\ NodeDone("generate_followups", r)
            /\ trace' = ran("generate_followups", r.raised)
    /\ UNCHANGED <<MEMORY_MANAGER, profile_file, call, outcome, result, env>>

HumanApproval ==
    /\ pc = "human_approval"
    /\ \E typed \in env.typed :
        LET r == step_6_human_approval(state, typed)
        IN  /\ NodeDone("human_approval", r)
            /\ trace' = [ran("human_approval", r.raised) EXCEPT
                            !.typed = IF state.auto_approve THEN NoInput ELSE typed]
    /\ UNCHANGED <<MEMORY_MANAGER, profile_file, call, outcome, result, env>>

StoreConversation ==
    /\ pc = "store_conversation"
    /\ \E backend \in env.stores :
        LET r == step_7_store_conversation(state, MEMORY_MANAGER, backend)
        IN  /\ NodeDone("store_conversation", r)
            /\ MEMORY_MANAGER' = r.mm
            /\ trace' = ran("store_conversation", r.raised)
    /\ UNCHANGED <<profile_file, call, outcome, result, env>>

ExtractFacts ==
    /\ pc = "extract_facts"
    /\ \E facts \in env.facts, save_ok \in env.saves :
        LET r == step_8_extract_facts(state, MEMORY_MANAGER, profile_file, facts, save_ok)
        IN  /\ NodeDone("extract_facts", r)
            /\ MEMORY_MANAGER' = r.mm
            /\ profile_file' = r.file
            /\ trace' = ran("extract_facts", r.raised)
    /\ UNCHANGED <<call, outcome, result, env>>

\* main.py:244-257: the stream is exhausted, the result dict is returned
Return ==
    /\ pc = "END"
    /\ result' = [loop_count |-> state.loop_count,
                  citation_quality |-> state.citation_quality,
                  human_approved |-> state.human_approved,
                  conversation_stored |-> state.conversation_stored,
                  conversation_id |-> state.conversation_id,
                  unsupported_claims |-> state.unsupported_claims,
                  intermediate_steps |-> state.intermediate_steps,
                  extracted_facts |-> state.extracted_facts]
    /\ outcome' = "returned"
    /\ pc' = "idle"
    /\ state' = NoState
    /\ trace' = [trace EXCEPT !.failed = ""]
    /\ UNCHANGED <<MEMORY_MANAGER, profile_file, call, env>>

Next ==
    \/ QueryAgent
    \/ AnalyzeIntent
    \/ RetrieveDocuments
    \/ SynthesizeAnswer
    \/ ValidateResponse
    \/ Route
    \/ GenerateFollowups
    \/ HumanApproval
    \/ StoreConversation
    \/ ExtractFacts
    \/ Return

Spec == Init /\ [][Next]_vars

\* a run in flight always takes its next step
FairSpec == Spec /\ WF_vars(Next)

----------------------------------------------------------------------------
(* The routing rule on its own: step_4_validate_response and                *)
(* route_after_validation applied to any state a caller may hand them.      *)

RuleMaxLoopCount == 3   \* loop_count values handed to the rule: 0..RuleMaxLoopCount

RuleEnv ==
    [intents |-> {}, searches |-> {}, answers |-> {},
     validations |-> StructuredResults,
     followups |-> {}, typed |-> {}, stores |-> {}, facts |-> {}, saves |-> {},
     backends |-> {}]

OneChunk == << [source |-> "d1", rank |-> 1, relevance_score |-> 50] >>

RuleStates ==
    { [initial_state(q, TRUE, FALSE) EXCEPT
          !.structured_answer = a,
          !.retrieved_chunks = chunks,
          !.retrieval_scores = [i \in 1..Len(chunks) |-> chunks[i].relevance_score],
          !.citation_quality = prev,
          !.previous_citation_quality = prev,
          !.validation_decision = decision,
          !.loop_count = n] :
        q \in {Q_plain, Q_recall},
        a \in {EarlierAnswer, ErrorAnswer},
        chunks \in {<<>>, OneChunk},
        prev \in Tiers \cup {""},
        decision \in Decisions,
        n \in 0..RuleMaxLoopCount }

InitRule ==
    /\ pc \in {"validate_response", "route"}
    /\ state \in RuleStates
    /\ env = RuleEnv
    /\ MEMORY_MANAGER = NoManager
    /\ profile_file = NoFile
    /\ call = Call(state.user_query, TRUE, FALSE, FALSE)
    /\ outcome = "running"
    /\ result = NoResult
    /\ trace = NoTrace

NextRule == ValidateResponse \/ Route

SpecRule == InitRule /\ [][NextRule]_vars

----------------------------------------------------------------------------
(* The profile manager on its own: apply_extracted_facts called again and    *)
(* again on the manager of one process, as step 8 calls it.  call holds the  *)
(* arguments of the last call, result what it returned, outcome whether it   *)
(* returned or raised.                                                       *)

MaxOccurrences == 3   \* calls are explored while no preference was seen more often

V_detailed      == <<"d", "e", "t", "a", "i", "l", "e", "d">>
V_lower_ms      == <<"m", "i", "c", "r", "o", "s", "o", "f", "t">>
V_expert        == <<"e", "x", "p", "e", "r", "t">>
V_beginner      == <<"b", "e", "g", "i", "n", "n", "e", "r", ":">>
V_spaced        == <<" ", "e", "x", "p", "e", "r", "t", " ", ":", " ", "a", ":", "b", " ">>
D_lower_python  == <<"p", "y", "t", "h", "o", "n">>
PT_response_style == <<"r", "e", "s", "p", "o", "n", "s", "e", "_", "s", "t", "y", "l", "e">>
F_age           == <<"a", "g", "e">>
LowFactConfidence == 5
FullFactConfidence == 10

\* facts the extractor may hand over (ExtractedFact validates confidence
\* into [0, 1])
ProfileFacts ==
    { ExtractedFact(C_personal_info, F_company, V_google, DefaultFactConfidence),
      ExtractedFact(C_personal_info, F_company, V_lower_ms, DefaultFactConfidence),
      ExtractedFact(C_personal_info, F_name, V_google, DefaultFactConfidence),
      ExtractedFact(C_personal_info, F_age, V_expert, DefaultFactConfidence),
      ExtractedFact(C_preference, PT_detail_level, V_brief, DefaultFactConfidence),
      ExtractedFact(C_preference, PT_detail_level, V_detailed, LowFactConfidence),
      ExtractedFact(C_preference, PT_response_style, V_brief, FullFactConfidence),
      ExtractedFact(C_expertise, D_python, V_advanced, DefaultFactConfidence),
      ExtractedFact(C_expertise, D_lower_python, V_expert, DefaultFactConfidence),
      ExtractedFact(C_expertise, D_python, V_beginner, DefaultFactConfidence),
      ExtractedFact(C_expertise, D_lower_python, V_spaced, DefaultFactConfidence) }

ProfileFactLists ==
    { <<f>> : f \in ProfileFacts } \cup FactLists \cup
    { << ExtractedFact(C_personal_info, F_company, V_google, DefaultFactConfidence),
         ExtractedFact(C_preference, PT_detail_level, V_brief, DefaultFactConfidence) >>,
      << ExtractedFact(C_preference, PT_detail_level, V_brief, DefaultFactConfidence),
         ExtractedFact(C_preference, PT_detail_level, V_detailed, LowFactConfidence) >> }

\* two repertoires: every fact list with a disk that takes every write, and
\* a few fact lists with a disk that may refuse a write
ProfileEnv ==
    [intents |-> {}, searches |-> {}, answers |-> {}, validations |-> {},
     followups |-> {}, typed |-> {}, stores |-> {},
     facts |-> ProfileFactLists, saves |-> {TRUE}, backends |-> {TRUE}]
FullDiskEnv ==
    [ProfileEnv EXCEPT !.facts = FactLists, !.saves = BOOLEAN]

\* the profile file a process finds: none, one written by hand, one saved
\* by an earlier run, one left unreadable
ProfileFiles ==
    {NoFile, SavedFile(HandWrittenProfile), SavedFile(EarlierProfile),
     UnreadableFile(EarlierProfile)}

NoFactsCall == [facts |-> <<>>, save_ok |-> TRUE]
NoFactsResult == [updated |-> <<>>, conflicts |-> <<>>]

InitProfile ==
    /\ pc = "idle"
    /\ state = NoState
    /\ env \in {ProfileEnv, FullDiskEnv}
    /\ profile_file \in ProfileFiles
    /\ MEMORY_MANAGER = get_memory_manager(NoManager, profile_file, TRUE, TRUE)
    /\ call = NoFactsCall
    /\ outcome = "none"
    /\ result = NoFactsResult
    /\ trace = NoTrace

\* profile_manager.apply_extracted_facts(facts)
ApplyExtractedFacts ==
    /\ pc = "idle"
    /\ MEMORY_MANAGER.created
    /\ \E facts \in env.facts, save_ok \in env.saves :
        \E r \in {apply_extracted_facts(MEMORY_MANAGER.profile, profile_file, facts, save_ok)} :
            /\ \A i \in 1..Len(r.profile.preferences) :
                    r.profile.preferences[i].occurrences <= MaxOccurrences
            /\ call' = [facts |-> facts, save_ok |-> save_ok]
            /\ MEMORY_MANAGER' = [MEMORY_MANAGER EXCEPT !.profile = r.profile]
            /\ profile_file' = r.file
            /\ outcome' = IF r.raised THEN "raised" ELSE "returned"
            /\ result' = IF r.raised THEN NoFactsResult
                         ELSE [updated |-> r.updated, conflicts |-> r.conflicts]
    /\ UNCHANGED <<pc, state, trace, env>>

NextProfile == ApplyExtractedFacts

SpecProfile == InitProfile /\ [][NextProfile]_vars

----------------------------------------------------------------------------
(* The memory manager called on its own: turns are added to the short-term
   buffer, the flag disable_short_term is set and cleared as
   EvaluationRunner does around a recall test, and the two context reads
   are made.  Messages are numbered in the order they are sent. *)

MaxTurns == 12
SmallShortTermSize == 2
ShortTermSizes == {SmallShortTermSize, ShortTermSize}

\* the answer to the k-th message: a short one, or one longer than the
\* 200 characters the context shows
TurnAnswer(k) ==
    IF k % 2 = 0
    THEN [json_like |-> FALSE, length |-> 600, citation_count |-> 2]
    ELSE [json_like |-> TRUE,  length |-> 150, citation_count |-> 0]

D_recent  == [user_message |-> "recent",  timestamp |-> Timestamp(0),
              relevance |-> 10, citation_quality |-> "Excellent"]
D_older   == [user_message |-> "older",   timestamp |-> Timestamp(15),
              relevance |-> 5,  citation_quality |-> "Good"]
D_level   == [user_message |-> "level",   timestamp |-> Timestamp(19),
              relevance |-> 7,  citation_quality |-> "unknown"]
D_stale   == [user_message |-> "stale",   timestamp |-> Timestamp(45),
              relevance |-> 0,  citation_quality |-> "Poor"]
D_undated == [user_message |-> "undated", timestamp |-> BadTimestamp,
              relevance |-> 3,  citation_quality |-> "Fair"]
D_ahead   == [user_message |-> "ahead",   timestamp |-> Timestamp(-1),
              relevance |-> 10, citation_quality |-> "Excellent"]

BufferEnv == [rankings |-> { <<>>, <<D_older>>, <<D_older, D_recent>> }]

NoContext == [heading |-> "", entries |-> <<>>]
NoMemoryCall == [op |-> "none", memories |-> <<>>, k |-> 0]

InitBuffer ==
    /\ pc = "idle"
    /\ state = NoState
    /\ env = BufferEnv
    /\ profile_file = NoFile
    /\ \E n \in ShortTermSizes, backend_ok \in BOOLEAN :
           MEMORY_MANAGER = [get_memory_manager(NoManager, profile_file, TRUE, backend_ok)
                                EXCEPT !.short_term_size = n]
    /\ call = NoMemoryCall
    /\ outcome = "none"
    /\ result = NoContext
    /\ trace = [added |-> 0]

AddToShortTerm ==
    /\ trace.added < MaxTurns
    /\ MEMORY_MANAGER' = add_to_short_term(MEMORY_MANAGER, trace.added + 1,
                                           TurnAnswer(trace.added + 1))
    /\ trace' = [added |-> trace.added + 1]
    /\ call' = [NoMemoryCall EXCEPT !.op = "add_to_short_term"]
    /\ result' = NoContext
    /\ UNCHANGED <<pc, state, profile_file, outcome, env>>

ClearShortTerm ==
    /\ MEMORY_MANAGER' = clear_short_term(MEMORY_MANAGER)
    /\ trace' = [added |-> 0]
    /\ call' = [NoMemoryCall EXCEPT !.op = "clear_short_term"]
    /\ result' = NoContext
    /\ UNCHANGED <<pc, state, profile_file, outcome, env>>

SetDisableShortTerm ==
    /\ \E flag \in BOOLEAN :
           MEMORY_MANAGER' = set_disable_short_term(MEMORY_MANAGER, flag)
    /\ call' = [NoMemoryCall EXCEPT !.op = "disable_short_term"]
    /\ result' = NoContext
    /\ UNCHANGED <<pc, state, profile_file, outcome, trace, env>>

GetShortTermContext ==
    /\ \E skip_if_disabled \in BOOLEAN :
           result' = [heading |-> IF get_short_term_context(MEMORY_MANAGER, skip_if_disabled)
                                       = NoRecentHistory
                                  THEN "No recent conversation history."
                                  ELSE M_short_term,
                      entries |-> get_short_term_context(MEMORY_MANAGER, skip_if_disabled)]
    /\ call' = [NoMemoryCall EXCEPT !.op = "get_short_term_context"]
    /\ UNCHANGED <<pc, state, MEMORY_MANAGER, profile_file, outcome, trace, env>>

GetRelevantMemoriesContext ==
    /\ \E ranking \in env.rankings, search_ok \in BOOLEAN :
           \E memories \in {retrieve_relevant_memories(MEMORY_MANAGER, ranking, DefaultK, search_ok)} :
               /\ result' = get_relevant_memories_context(MEMORY_MANAGER, memories)
               /\ call' = [op |-> "get_relevant_memories_context",
                           memories |-> memories, k |-> DefaultK]
    /\ UNCHANGED <<pc, state, MEMORY_MANAGER, profile_file, outcome, trace, env>>

NextBuffer ==
    \/ AddToShortTerm
    \/ ClearShortTerm
    \/ SetDisableShortTerm
    \/ GetShortTermContext
    \/ GetRelevantMemoriesContext

SpecBuffer == InitBuffer /\ [][NextBuffer]_vars

----------------------------------------------------------------------------

(* retrieve_relevant_memories called on its own, over what the store's
   similarity search may hold: memories of several ages and citation
   qualities, two of them with equal hybrid scores, one without a readable
   timestamp and one stamped after the clock's present reading (the
   timestamps are naive local times, so a clock set back leaves such
   stamps). *)

MaxK == 2

StoredMemories == {D_recent, D_older, D_level, D_stale, D_undated, D_ahead}

\* rankings of n memories, none of them twice
RECURSIVE RankingsOfLen(_)
RankingsOfLen(n) ==
    IF n = 0
    THEN { <<>> }
    ELSE UNION { { Append(r, d) : d \in StoredMemories \ { r[i] : i \in 1..Len(r) } } :
                 r \in RankingsOfLen(n - 1) }

Rankings == UNION { RankingsOfLen(n) : n \in 0..(2 * MaxK + 1) }

RankingEnv == [rankings |-> Rankings]

InitRanking ==
    /\ pc = "idle"
    /\ state = NoState
    /\ env = RankingEnv
    /\ profile_file = NoFile
    /\ \E backend_ok \in BOOLEAN :
           MEMORY_MANAGER = get_memory_manager(NoManager, profile_file, TRUE, backend_ok)
    /\ call = [op |-> "none", ranking |-> <<>>, k |-> 0]
    /\ outcome = "none"
    /\ result = <<>>
    /\ trace = [added |-> 0]

\* one retrieval per behaviour
RetrieveRelevantMemories ==
    /\ pc = "idle"
    /\ pc' = "done"
    /\ \E ranking \in env.rankings, k \in 1..MaxK, search_ok \in BOOLEAN :
           /\ result' = retrieve_relevant_memories(MEMORY_MANAGER, ranking, k, search_ok)
           /\ call' = [op |-> IF search_ok THEN "retrieve_relevant_memories" ELSE "search_raised",
                       ranking |-> ranking, k |-> k]
    /\ UNCHANGED <<state, MEMORY_MANAGER, profile_file, outcome, trace, env>>

NextRanking == RetrieveRelevantMemories

SpecRanking == InitRanking /\ [][NextRanking]_vars

----------------------------------------------------------------------------

(* Two runs over one profile file: the steps of UserProfileManager taken
   one at a time.  A run constructs its manager (which loads the file),
   then applies its facts; every in-memory change is followed by its own
   rewrite of the whole document.  The runs hold an instance each, as the
   two managers of EvaluationRunner.clear_all_memory do, or share the
   global instance of main.py.  A change in memory is taken as one step;
   finer interleavings only add behaviours. *)

Runs == {"first", "second"}

ConcurrentFacts == { f \in ProfileFacts : f.category \in {C_preference, C_expertise} }

ConcurrentFactLists ==
    { <<f>> : f \in ConcurrentFacts } \cup
    { <<ExtractedFact(C_preference, PT_detail_level, V_detailed, DefaultFactConfidence),
        ExtractedFact(C_expertise, D_python, V_advanced, DefaultFactConfidence)>> }

ConcurrentEnvs == { [shared |-> s, facts |-> ConcurrentFactLists, saves |-> {TRUE}] : s \in BOOLEAN }

\* the instance a run works on
instance_of(r) == IF env.shared THEN "first" ELSE r

\* a document not written by the step under way
Unwritten == [status |-> "unwritten", doc |-> UserProfile]

InitConcurrent ==
    /\ env \in ConcurrentEnvs
    /\ profile_file \in ProfileFiles
    /\ pc = [r \in Runs |-> "new"]
    /\ MEMORY_MANAGER = [r \in Runs |-> NoManager]
    /\ call \in [Runs -> env.facts]
    /\ trace = [initial |-> profile_file, facts |-> call]
    /\ state = NoState
    /\ outcome = "none"
    /\ result = NoFactsResult

\* UserProfileManager.__init__ through get_memory_manager: loads the file
Construct(r) ==
    /\ pc[r] = "new"
    /\ MEMORY_MANAGER' = [MEMORY_MANAGER EXCEPT ![instance_of(r)] =
                              get_memory_manager(@, profile_file, TRUE, TRUE)]
    /\ pc' = [pc EXCEPT ![r] = "ready"]
    /\ UNCHANGED <<state, profile_file, call, outcome, result, trace, env>>

\* the in-memory part of add_or_update_preference / add_or_update_expertise
\* for the next fact of apply_extracted_facts
Mutate(r) ==
    /\ pc[r] = "ready"
    /\ call[r] # <<>>
    /\ \E a \in {apply_one_fact([profile |-> MEMORY_MANAGER[instance_of(r)].profile,
                                 file |-> Unwritten, updated |-> <<>>,
                                 conflicts |-> <<>>, raised |-> FALSE],
                                Head(call[r]), TRUE)} :
           /\ MEMORY_MANAGER' = [MEMORY_MANAGER EXCEPT ![instance_of(r)].profile = a.profile]
           /\ pc' = [pc EXCEPT ![r] = IF a.file # Unwritten THEN "saving" ELSE "ready"]
    /\ call' = [call EXCEPT ![r] = Tail(@)]
    /\ UNCHANGED <<state, profile_file, outcome, result, trace, env>>

\* the _save_profile call that ends the mutation
Save(r) ==
    /\ pc[r] = "saving"
    /\ profile_file' = _save_profile(MEMORY_MANAGER[instance_of(r)].profile, profile_file, TRUE)
    /\ pc' = [pc EXCEPT ![r] = "ready"]
    /\ UNCHANGED <<state, MEMORY_MANAGER, call, outcome, result, trace, env>>

\* apply_extracted_facts returns
ReturnFacts(r) ==
    /\ pc[r] = "ready"
    /\ call[r] = <<>>
    /\ pc' = [pc EXCEPT ![r] = "done"]
    /\ UNCHANGED <<state, MEMORY_MANAGER, profile_file, call, outcome, result, trace, env>>

NextConcurrent ==
    \E r \in Runs : Construct(r) \/ Mutate(r) \/ Save(r) \/ ReturnFacts(r)

SpecConcurrent == InitConcurrent /\ [][NextConcurrent]_vars

----------------------------------------------------------------------------

(* The evaluation backend: GeminiModel.generate and generate_structured,
   one attempt per step.  The client answers, or raises an error that has
   an HTTP status and the text str(e) gives: the code tells a rate limit
   from other errors by looking for "429" and "ResourceExhausted" in that
   text. *)

max_retries == 3

X_429       == <<"4", "2", "9">>
X_exhausted == <<"R", "e", "s", "o", "u", "r", "c", "e", "E", "x", "h", "a", "u", "s", "t", "e", "d">>

GeminiError(status, text) == [status |-> status, text |-> text]
E_quota     == GeminiError(429, <<"4", "2", "9", " ", "q", "u", "o", "t", "a">>)
E_exhausted == GeminiError(429, X_exhausted \o <<":", " ", "q", "u", "o", "t", "a">>)
E_internal  == GeminiError(500, <<"5", "0", "0", " ", "i", "n", "t", "e", "r", "n", "a", "l">>)
\* "400 INVALID_ARGUMENT ... input token count (14290) exceeds the maximum"
E_too_long  == GeminiError(400, <<"4", "0", "0", " ", "t", "o", "k", "e", "n", "s", " ",
                                  "1", "4", "2", "9", "0">>)
NoError     == GeminiError(0, <<>>)

GeminiErrors == {E_quota, E_exhausted, E_internal, E_too_long}

GeminiResponses ==
    { [ok |-> TRUE, error |-> NoError] } \cup { [ok |-> FALSE, error |-> e] : e \in GeminiErrors }

BackendEnv == [responses |-> GeminiResponses]

\* gemini_model.py:46 and :74
is_rate_limit(text) == contains(text, X_429) \/ contains(text, X_exhausted)

\* one turn of the for loop of generate / generate_structured: whether the
\* call ends there and what it returns
attempt_outcome(method, attempt, response) ==
    IF response.ok
    THEN [ends |-> TRUE, value |-> IF method = "generate" THEN "response.text" ELSE "response.parsed"]
    ELSE IF is_rate_limit(response.error.text)
    THEN IF attempt < max_retries
         THEN [ends |-> FALSE, value |-> "sleep"]
         ELSE [ends |-> TRUE, value |-> IF method = "generate" THEN "" ELSE "None"]
    ELSE [ends |-> TRUE, value |-> ""]

NoBackendCall == [method |-> "none"]
NoAttempts == [attempts |-> 0, errors |-> <<>>]

InitBackend ==
    /\ pc = "idle"
    /\ state = NoState
    /\ env = BackendEnv
    /\ MEMORY_MANAGER = NoManager
    /\ profile_file = NoFile
    /\ call = NoBackendCall
    /\ outcome = "none"
    /\ result = "none"
    /\ trace = NoAttempts

\* generate / generate_structured entered: _rate_limit_wait, then the loop
CallBackend ==
    /\ pc = "idle"
    /\ \E method \in {"generate", "generate_structured"} : call' = [method |-> method]
    /\ pc' = "attempt"
    /\ outcome' = "running"
    /\ result' = "none"
    /\ trace' = NoAttempts
    /\ UNCHANGED <<state, MEMORY_MANAGER, profile_file, env>>

Attempt ==
    /\ pc = "attempt"
    /\ \E response \in env.responses :
         \E r \in {attempt_outcome(call.method, trace.attempts + 1, response)} :
           /\ trace' = [attempts |-> trace.attempts + 1,
                        errors |-> IF response.ok THEN trace.errors
                                   ELSE Append(trace.errors, response.error)]
           /\ pc' = IF r.ends THEN "idle" ELSE "attempt"
           /\ outcome' = IF r.ends THEN "returned" ELSE "running"
           /\ result' = IF r.ends THEN r.value ELSE "none"
    /\ UNCHANGED <<state, MEMORY_MANAGER, profile_file, call, env>>

NextBackend == CallBackend \/ Attempt

SpecBackend == InitBackend /\ [][NextBackend]_vars

----------------------------------------------------------------------------

(* Properties.                                                              *)

LoopDecisions == {"loop_to_intent", "loop_to_retrieval"}
LowTiers == {"Poor", "Fair"}
TailNodes == {"generate_followups", "human_approval", "store_conversation", "extract_facts"}

\* the order of the stages as the specification lists them
StageOrder ==
    <<"analyze_intent", "retrieve_documents", "synthesize_answer", "validate_response",
      "route", "generate_followups", "human_approval", "store_conversation",
      "extract_facts", "END">>

Follows(a, b) == \E i \in 1..(Len(StageOrder) - 1) : StageOrder[i] = a /\ StageOrder[i + 1] = b

LoopsBack(a, b) == a = "route" /\ b \in {"analyze_intent", "retrieve_documents"}

Logged(steps, name) == \E i \in 1..Len(steps) : steps[i] = <<"Error in", name>>

StepFailed == trace'.failures = trace.failures + 1

\* C1: in every reachable state of a run, and in the result it returns,
\* loop_count is at most 2.
LoopBound ==
    /\ state.loop_count <= 2
    /\ result.loop_count <= 2

\* a run that has taken its second loop-back
LoopBoundWitness ==
    /\ outcome = "running"
    /\ state.loop_count = 2
    /\ trace.loop_backs = 2
    /\ pc \in {"analyze_intent", "retrieve_documents"}

\* C2: every run that passed the entry check reaches END, whatever the
\* validators return and whichever stages raise.
Termination == (outcome = "running") ~> (pc = "END")

\* a run at END after two loop-backs and a raising stage
TerminationWitness ==
    /\ pc = "END"
    /\ trace.loop_backs = 2
    /\ trace.failures > 0

\* C3: when the router is handed a loop decision and the incremented
\* loop_count exceeds 2, the next stage is generate_followups, whatever the
\* tier.
HardCap ==
    [][(pc = "route" /\ state.validation_decision \in LoopDecisions /\ state.loop_count + 1 > 2)
        => (pc' = "generate_followups" /\ trace'.route = "max_loops_reached")]_vars

\* the router forcing a Poor answer with a loop decision forward
HardCapWitness ==
    /\ pc = "generate_followups"
    /\ trace.route = "max_loops_reached"
    /\ state.validation_decision \in LoopDecisions
    /\ state.citation_quality = "Poor"
    /\ state.loop_count = 3

\* C4: stages run in the listed order; the only backward transitions leave
\* the router for analyze_intent or retrieve_documents; the four stages after
\* the router run at most once, only after the router returned continue (or
\* max_loops_reached), and exactly once in a run that has reached END.
StageOrdering ==
    /\ [][pc' # pc =>
            IF pc = "idle" THEN pc' = "analyze_intent"
            ELSE IF pc' = "idle" THEN pc = "END"
            ELSE Follows(pc, pc') \/ LoopsBack(pc, pc')]_vars
    /\ [](\A n \in TailNodes :
            /\ trace.executed[n] <= 1
            /\ (trace.executed[n] = 1 \/ pc = n) => trace.route \in {"continue", "max_loops_reached"}
            /\ (pc = "END" \/ outcome = "returned") => trace.executed[n] = 1)

\* a finished run that went back once to analyze_intent and once to
\* retrieve_documents
StageOrderingWitness ==
    /\ outcome = "returned"
    /\ trace.executed["analyze_intent"] = 2
    /\ trace.executed["retrieve_documents"] = 3
    /\ trace.executed["validate_response"] = 3
    /\ \A n \in TailNodes : trace.executed[n] = 1

ValidationFailureDefault ==
    /\ [][(pc = "validate_response" /\ StepFailed) =>
            /\ state'.validation_decision = "continue"
            /\ state'.citation_quality = "Unknown"
            /\ state'.loop_count = state.loop_count
            /\ pc' = "route"]_vars
    /\ [][(pc = "route" /\ trace.failed = "Response Validation") =>
            /\ pc' = "generate_followups"
            /\ state'.loop_count = state.loop_count
            /\ trace'.loop_backs = trace.loop_backs]_vars

\* validation raised on the pass after a loop-back and the router went on
ValidationFailureDefaultWitness ==
    /\ pc = "generate_followups"
    /\ state.citation_quality = "Unknown"
    /\ Logged(state.intermediate_steps, "Response Validation")
    /\ state.loop_count = 1
    /\ trace.decisions[1] \in LoopDecisions

\* C7: in a run whose approval stage raised, human_approved is false,
\* human_feedback is the error message, and the short-term buffer, the
\* long-term store and the profile are what they were when the run started.
ApprovalFailureDefault ==
    /\ (outcome = "running" /\ Logged(state.intermediate_steps, "Human Approval")) =>
            /\ ~state.human_approved
            /\ state.human_feedback = E_approval
            /\ ~state.conversation_stored
            /\ MEMORY_MANAGER = trace.start.mm
            /\ profile_file = trace.start.file
    /\ (outcome = "returned" /\ Logged(result.intermediate_steps, "Human Approval")) =>
            /\ ~result.human_approved
            /\ ~result.conversation_stored
            /\ MEMORY_MANAGER = trace.start.mm
            /\ profile_file = trace.start.file

\* a finished run with memory enabled whose approval stage raised
ApprovalFailureDefaultWitness ==
    /\ outcome = "returned"
    /\ Logged(result.intermediate_steps, "Human Approval")
    /\ MEMORY_MANAGER.created
    /\ ~call.skip_memory
    /\ trace.executed["store_conversation"] = 1
    /\ trace.executed["extract_facts"] = 1

\* C8: a query that is empty or shorter than 5 characters after trimming
\* makes query_agent raise before any stage: no workflow state, no manager,
\* no memory and no profile is created or changed; every other query starts
\* a run.
EntryPrecondition ==
    /\ [](outcome = "raised" =>
            /\ Len(strip(call.user_query)) < 5
            /\ pc = "idle"
            /\ state = NoState
            /\ trace = NoTrace)
    /\ [][outcome' = "raised" => UNCHANGED <<pc, state, MEMORY_MANAGER, profile_file, trace, result>>]_vars
    /\ [](outcome \in {"running", "returned"} => Len(strip(call.user_query)) >= 5)

\* the call with "  abc  " has raised
EntryPreconditionWitness ==
    /\ outcome = "raised"
    /\ call.user_query = Q_padded
    /\ Len(call.user_query) >= 5

\* C9: a validation pass that assesses Poor or Fair with no retrieved chunks
\* decides continue, whatever the previous tier, the notes, the claims and
\* loop_count; the router then goes to generate_followups; loop_count is not
\* incremented.
NoDocumentsGuard ==
    /\ [][(pc = "validate_response" /\ state'.citation_quality \in LowTiers
                /\ Len(state.retrieved_chunks) = 0) =>
            /\ state'.validation_decision = "continue"
            /\ state'.loop_count = state.loop_count]_vars
    /\ [][(pc = "route" /\ trace.executed["validate_response"] = 1
                /\ state.citation_quality \in LowTiers /\ Len(state.retrieved_chunks) = 0) =>
            /\ pc' = "generate_followups"
            /\ state'.loop_count = state.loop_count]_vars

\* a Fair assessment with no chunks, unsupported claims and one loop-back
\* already taken, routed forward
NoDocumentsGuardWitness ==
    /\ pc = "generate_followups"
    /\ trace.executed["validate_response"] = 1
    /\ trace.route = "continue"
    /\ state.citation_quality = "Fair"
    /\ state.previous_citation_quality = "Fair"
    /\ Len(state.retrieved_chunks) = 0
    /\ Len(state.unsupported_claims) > 0
    /\ state.loop_count = 1

\* C10: when two consecutive validation passes of a run assess the same
\* Poor or Fair tier, the second pass decides continue.
StalledQualityGuard ==
    \A i \in 2..Len(trace.tiers) :
        (trace.tiers[i] = trace.tiers[i - 1] /\ trace.tiers[i] \in LowTiers)
            => trace.decisions[i] = "continue"

\* two Fair passes, the second with chunks and unsupported claims
StalledQualityGuardWitness ==
    /\ pc = "route"
    /\ trace.tiers = <<"Fair", "Fair">>
    /\ trace.decisions[1] \in LoopDecisions
    /\ Len(state.retrieved_chunks) > 0
    /\ Len(state.unsupported_claims) > 0
    /\ state.loop_reason = "Quality not improving"

\* the ordinals of the tiers as the specification gives them
Ordinal(tier) ==
    CASE tier = "Poor" -> 0 [] tier = "Fair" -> 1 [] tier = "Good" -> 2 [] tier = "Excellent" -> 3

\* C11: on every validation pass of a run after the first, a Poor or Fair
\* tier whose ordinal is not strictly greater than the ordinal of the pass
\* before gets the decision continue.
RegressionGuard ==
    \A i \in 2..Len(trace.tiers) :
        (/\ trace.tiers[i] \in LowTiers
         /\ trace.tiers[i - 1] \in Tiers
         /\ ~(Ordinal(trace.tiers[i]) > Ordinal(trace.tiers[i - 1])))
            => trace.decisions[i] = "continue"

\* Fair on the first pass, Poor on the second with chunks and unsupported
\* claims at hand: the second pass decides continue
RegressionGuardWitness ==
    /\ pc = "route"
    /\ trace.tiers = <<"Fair", "Poor">>
    /\ trace.decisions[1] \in LoopDecisions
    /\ Len(state.retrieved_chunks) > 0
    /\ Len(state.unsupported_claims) > 0
    /\ state.validation_decision = "continue"
    /\ state.loop_reason = "Quality degraded from previous attempt"

\* the guards of the routing rule, read off the state a pass starts from and
\* the tier it assessed
NoDocumentsFires == Len(state.retrieved_chunks) = 0
StalledFires ==
    state.previous_citation_quality # "" /\ state'.citation_quality = state.previous_citation_quality
RegressionFires ==
    /\ state.loop_count > 0
    /\ ~(/\ state.previous_citation_quality # ""
         /\ Ordinal(state'.citation_quality) > Ordinal(state.previous_citation_quality))

MentionsMissing(notes) == contains(lower(notes), <<"m", "i", "s", "s", "i", "n", "g">>)

PassReturned == pc = "validate_response" /\ trace'.failed = ""

\* C12: a pass that assessed Poor or Fair with none of the no-documents,
\* stalled and regression guards firing decides loop_to_intent when the
\* notes mention missing information or no unsupported claim is listed, and
\* loop_to_retrieval otherwise; every pass leaves one of the three decision
\* values.
LoopTargetSelection ==
    [][pc = "validate_response" =>
        /\ state'.validation_decision \in {"continue", "loop_to_intent", "loop_to_retrieval"}
        /\ (/\ PassReturned
            /\ state'.citation_quality \in LowTiers
            /\ ~NoDocumentsFires /\ ~StalledFires /\ ~RegressionFires)
           => state'.validation_decision =
                IF MentionsMissing(state'.validation_notes) \/ state'.unsupported_claims = <<>>
                THEN "loop_to_intent" ELSE "loop_to_retrieval"]_vars

\* "Missing scope" in the notes with unsupported claims listed: the second
\* pass, improved from Poor to Fair, loops to intent
LoopTargetSelectionWitness ==
    /\ pc = "route"
    /\ state.citation_quality = "Fair"
    /\ state.loop_count = 1
    /\ Len(state.retrieved_chunks) > 0
    /\ state.validation_notes = N_missing
    /\ Len(state.unsupported_claims) > 0
    /\ state.validation_decision = "loop_to_intent"
    /\ trace.executed["validate_response"] = 1

HighTiers == {"Good", "Excellent"}

\* C13: a pass that assessed Good or Excellent decides continue, the router
\* then goes to generate_followups, and neither step changes loop_count,
\* whatever the previous tier, the chunks and loop_count.
PassThrough ==
    /\ [][(pc = "validate_response" /\ state'.citation_quality \in HighTiers) =>
            /\ state'.validation_decision = "continue"
            /\ state'.loop_count = state.loop_count]_vars
    /\ [][(pc = "route" /\ trace.executed["validate_response"] = 1
                /\ state.citation_quality \in HighTiers) =>
            /\ pc' = "generate_followups"
            /\ trace'.route = "continue"
            /\ state'.loop_count = state.loop_count]_vars

\* Good assessed with chunks at hand, unsupported claims listed and two
\* loop-backs already counted: routed forward with loop_count still 2
PassThroughWitness ==
    /\ pc = "generate_followups"
    /\ trace.executed["validate_response"] = 1
    /\ trace.route = "continue"
    /\ state.citation_quality = "Good"
    /\ state.previous_citation_quality = "Good"
    /\ Len(state.retrieved_chunks) > 0
    /\ Len(state.unsupported_claims) > 0
    /\ state.loop_count = 2

\* states that agree with st on tier, previous tier, chunk count, notes,
\* unsupported claims and loop_count, and differ in what else a state holds
OtherChunk == [source |-> "d2", rank |-> 2, relevance_score |-> 40]
Perturbed(st) ==
    { [st EXCEPT !.user_query = q,
                 !.structured_answer = a,
                 !.validation_decision = d,
                 !.loop_reason = reason,
                 !.human_approved = approved,
                 !.retrieved_chunks = [i \in 1..Len(st.retrieved_chunks) |-> OtherChunk]] :
        q \in {Q_plain, Q_recall},
        a \in Answers \cup {ErrorAnswer},
        d \in Decisions,
        reason \in {"", "Missing context"},
        approved \in BOOLEAN }

\* the decision the routing rule writes and the stage the router then names
RoutingOf(st) ==
    LET decided == routing_rule(st)
    IN  <<decided.validation_decision, path_map(route_after_validation(decided).route)>>

\* the state as the routing rule finds it in the pass being taken
AsAssessed ==
    [state EXCEPT !.citation_quality = state'.citation_quality,
                  !.validation_notes = state'.validation_notes,
                  !.unsupported_claims = state'.unsupported_claims]

\* C14: the decision a pass writes, and the stage the router then names,
\* are those of every other evaluation of the rule on a state with the same
\* tier, previous tier, chunk count, notes, unsupported claims and
\* loop_count.
RoutingDeterminism ==
    [][PassReturned =>
        \A other \in Perturbed(AsAssessed) :
            RoutingOf(other) =
                <<state'.validation_decision, path_map(route_after_validation(state').route)>>]_vars

\* a pass that decided loop_to_retrieval on an answer carrying citations,
\* while evaluations on answers without citations are among those compared
RoutingDeterminismWitness ==
    /\ pc = "route"
    /\ trace.executed["validate_response"] = 1
    /\ state.validation_decision = "loop_to_retrieval"
    /\ state.structured_answer.citation_count > 0
    /\ \E other \in Perturbed(state) : other.structured_answer.citation_count = 0

\* C15: previous_citation_quality is empty until the first validation pass
\* of a run, and after every execution of validate_response, one that raised
\* included, it equals the citation_quality that pass left.
PreviousQualityTracksLastPass ==
    /\ []((outcome = "running" /\ trace.executed["validate_response"] = 0)
            => state.previous_citation_quality = "")
    /\ [][pc = "validate_response" =>
            state'.previous_citation_quality = state'.citation_quality]_vars

\* C16: in a run whose exchange is not approved when extract_facts runs, no
\* fact is extracted or applied, and the profile held by the manager and the
\* profile file are, during and after the run, what they were at its start.
ApprovalGate ==
    /\ [][(pc = "extract_facts" /\ ~state.human_approved) =>
            /\ state'.extracted_facts = <<>>
            /\ ~state'.profile_updated
            /\ MEMORY_MANAGER'.profile = MEMORY_MANAGER.profile
            /\ profile_file' = profile_file]_vars
    /\ []((trace.executed["human_approval"] = 1 /\ outcome = "running" /\ ~state.human_approved)
            => (MEMORY_MANAGER.profile = trace.start.mm.profile /\ profile_file = trace.start.file))
    /\ []((outcome = "returned" /\ ~result.human_approved)
            => (/\ result.extracted_facts = <<>>
                /\ MEMORY_MANAGER.profile = trace.start.mm.profile
                /\ profile_file = trace.start.file))

\* the operator typed a rejection; the run finished with the earlier profile
\* and its file as they were
ApprovalGateWitness ==
    /\ outcome = "returned"
    /\ ~result.human_approved
    /\ ~Logged(result.intermediate_steps, "Human Approval")
    /\ trace.executed["extract_facts"] = 1
    /\ MEMORY_MANAGER.created
    /\ MEMORY_MANAGER.profile = EarlierProfile
    /\ profile_file = SavedFile(EarlierProfile)

\* the values a personal-info field holds
ValuesHeld(stored) == IF stored = PyNone THEN <<>> ELSE <<stored>>

HoldsValue(stored, value) ==
    \E i \in 1..Len(ValuesHeld(stored)) : lower(ValuesHeld(stored)[i]) = lower(value)

\* the call just made handed over one personal_info fact for a declared field
OnePersonalFact ==
    /\ Len(call'.facts) = 1
    /\ call'.facts[1].category = "personal_info"
    /\ call'.facts[1].field \in {F_name, F_role, F_company, F_location, F_industry}

\* C17: apply_extracted_facts returns a conflict for a personal_info fact
\* exactly when the field held at least one value and the new value differs,
\* ignoring case, from all of them; the conflict names the field, the values
\* held before the call and the new value, and the field then holds the old
\* values and the new one.
ConflictDetection ==
    [][OnePersonalFact =>
        LET fact == call'.facts[1]
            stored == MEMORY_MANAGER.profile.personal_info[fact.field]
            distinct == ValuesHeld(stored) # <<>> /\ ~HoldsValue(stored, fact.value)
        IN  /\ outcome' = "returned"
            /\ Len(result'.conflicts) = IF distinct THEN 1 ELSE 0
            /\ distinct =>
                /\ result'.conflicts[1].field = fact.field
                /\ result'.conflicts[1].existing = stored
                /\ result'.conflicts[1].new = fact.value
                /\ HoldsValue(MEMORY_MANAGER'.profile.personal_info[fact.field], stored)
                /\ HoldsValue(MEMORY_MANAGER'.profile.personal_info[fact.field], fact.value)]_vars

\* C18: after apply_extracted_facts has processed a personal_info fact for a
\* declared field, the field holds the new value (ignoring case) in the
\* manager's profile and, when the write went through, in the profile file,
\* whatever the field held before.
AppendNeverOverwrite ==
    [][OnePersonalFact =>
        LET fact == call'.facts[1]
        IN  /\ HoldsValue(MEMORY_MANAGER'.profile.personal_info[fact.field], fact.value)
            /\ call'.save_ok =>
                HoldsValue(profile_file'.doc.personal_info[fact.field], fact.value)]_vars

\* C19: no call of apply_extracted_facts removes or replaces a value that a
\* personal-info field held before the call.
ConflictMonotonicity ==
    [][\A field \in {F_name, F_role, F_company, F_location, F_industry} :
        LET before == ValuesHeld(MEMORY_MANAGER.profile.personal_info[field])
            after == ValuesHeld(MEMORY_MANAGER'.profile.personal_info[field])
        IN  \A i \in 1..Len(before) : \E j \in 1..Len(after) : after[j] = before[i]]_vars

\* company held Microsoft when a call brought Google for it, and holds it
\* still
ConflictMonotonicityWitness ==
    /\ outcome \in {"returned", "raised"}
    /\ Len(call.facts) = 1
    /\ call.facts[1].category = "personal_info"
    /\ call.facts[1].field = F_company
    /\ call.facts[1].value = V_google
    /\ MEMORY_MANAGER.profile.personal_info[F_company] = V_microsoft

\* the call just made handed over one preference fact
OnePreferenceFact ==
    /\ Len(call'.facts) = 1
    /\ call'.facts[1].category = "preference"

\* C20: the profile holds at most one Preference per preference type, with
\* confidence within [0, 1] (0..10 tenths); the first fact of a type appends
\* an entry with the stated confidence and occurrence count 1; a later fact
\* of the type overwrites the value of that entry, adds 1 to its occurrence
\* count and 0.1 to its confidence, capped at 1.0, and leaves the other
\* entries alone.
PreferenceUpdate ==
    /\ [](MEMORY_MANAGER.created =>
            LET preferences == MEMORY_MANAGER.profile.preferences
            IN  /\ \A i, j \in 1..Len(preferences) :
                        preferences[i].preference_type = preferences[j].preference_type => i = j
                /\ \A i \in 1..Len(preferences) :
                        /\ preferences[i].confidence >= 0
                        /\ preferences[i].confidence <= 10
                        /\ preferences[i].occurrences >= 1)
    /\ [][OnePreferenceFact =>
            LET fact == call'.facts[1]
                before == MEMORY_MANAGER.profile.preferences
                after == MEMORY_MANAGER'.profile.preferences
                known == \E i \in 1..Len(before) : before[i].preference_type = fact.field
            IN  IF ~known
                THEN after = Append(before, [preference_type |-> fact.field, value |-> fact.value,
                                             confidence |-> fact.confidence, occurrences |-> 1])
                ELSE /\ Len(after) = Len(before)
                     /\ \A i \in 1..Len(before) :
                            IF before[i].preference_type = fact.field
                            THEN after[i] =
                                    [preference_type |-> fact.field, value |-> fact.value,
                                     confidence |-> IF before[i].confidence + 1 > 10 THEN 10
                                                    ELSE before[i].confidence + 1,
                                     occurrences |-> before[i].occurrences + 1]
                            ELSE after[i] = before[i]]_vars

\* response_style seen twice at full confidence and still at 1.0, next to a
\* detail_level entry whose value was overwritten on its second fact
PreferenceUpdateWitness ==
    LET preferences == MEMORY_MANAGER.profile.preferences
    IN  /\ Len(preferences) = 2
        /\ \E i \in 1..2 :
            /\ preferences[i].preference_type = PT_response_style
            /\ preferences[i].occurrences = 2
            /\ preferences[i].confidence = 10
        /\ \E i \in 1..2 :
            /\ preferences[i].preference_type = PT_detail_level
            /\ preferences[i].value = V_detailed
            /\ preferences[i].occurrences = 2
            /\ preferences[i].confidence = 9

\* the call just made handed over one expertise fact
OneExpertiseFact ==
    /\ Len(call'.facts) = 1
    /\ call'.facts[1].category = "expertise"

\* what the specification makes of an expertise value: cut at the first
\* colon and trimmed, or intermediate with the whole value
Blank(c) == c \in {" ", "\t", "\n"}
Trimmed(s) ==
    IF \A i \in 1..Len(s) : Blank(s[i])
    THEN <<>>
    ELSE LET first == CHOOSE i \in 1..Len(s) : ~Blank(s[i]) /\ \A j \in 1..(i - 1) : Blank(s[j])
             last == CHOOSE i \in 1..Len(s) : ~Blank(s[i]) /\ \A j \in (i + 1)..Len(s) : Blank(s[j])
         IN  [i \in 1..(last - first + 1) |-> s[first + i - 1]]
HasColon(value) == \E i \in 1..Len(value) : value[i] = ":"
FirstColon(value) == CHOOSE i \in 1..Len(value) : value[i] = ":" /\ \A j \in 1..(i - 1) : value[j] # ":"
SkillOf(value) ==
    IF HasColon(value)
    THEN Trimmed([i \in 1..(FirstColon(value) - 1) |-> value[i]])
    ELSE <<"i", "n", "t", "e", "r", "m", "e", "d", "i", "a", "t", "e">>
ContextOf(value) ==
    IF HasColon(value)
    THEN Trimmed([i \in 1..(Len(value) - FirstColon(value)) |-> value[FirstColon(value) + i]])
    ELSE value

\* C21: the profile holds at most one Expertise per domain, compared without
\* regard to case; an expertise fact for a domain already present overwrites
\* the skill level and the context of that entry with those of the fact, an
\* empty context included, and a fact for a new domain appends one entry.
ExpertiseUpdate ==
    /\ [](MEMORY_MANAGER.created =>
            LET expertise == MEMORY_MANAGER.profile.expertise
            IN  \A i, j \in 1..Len(expertise) :
                    lower(expertise[i].domain) = lower(expertise[j].domain) => i = j)
    /\ [][OneExpertiseFact =>
            LET fact == call'.facts[1]
                before == MEMORY_MANAGER.profile.expertise
                after == MEMORY_MANAGER'.profile.expertise
                known == \E i \in 1..Len(before) : lower(before[i].domain) = lower(fact.field)
            IN  IF ~known
                THEN after = Append(before, [domain |-> fact.field,
                                             skill_level |-> SkillOf(fact.value),
                                             context |-> ContextOf(fact.value)])
                ELSE /\ Len(after) = Len(before)
                     /\ \A i \in 1..Len(before) :
                            IF lower(before[i].domain) = lower(fact.field)
                            THEN /\ after[i].skill_level = SkillOf(fact.value)
                                 /\ after[i].context = ContextOf(fact.value)
                            ELSE after[i] = before[i]]_vars

\* C22: an expertise value that holds a colon is cut at its first colon into
\* the skill level and the context, both trimmed; a value without a colon
\* gives the skill level intermediate and the whole value as the context.
\* The parsed skill level is reported and stored; the parsed context is
\* stored with a new entry.
ExpertiseParsing ==
    [][OneExpertiseFact =>
        LET fact == call'.facts[1]
            before == MEMORY_MANAGER.profile.expertise
            after == MEMORY_MANAGER'.profile.expertise
        IN  /\ result'.updated = <<<<"expertise", fact.field, SkillOf(fact.value)>>>>
            /\ \A i \in 1..Len(after) :
                   lower(after[i].domain) = lower(fact.field) =>
                       /\ after[i].skill_level = SkillOf(fact.value)
                       /\ i > Len(before) => after[i].context = ContextOf(fact.value)]_vars

\* a value with two colons and blanks around its parts was parsed into a new entry
ExpertiseParsingWitness ==
    /\ outcome = "returned"
    /\ Len(call.facts) = 1
    /\ call.facts[1].category = "expertise"
    /\ call.facts[1].value = V_spaced
    /\ \E i \in 1..Len(MEMORY_MANAGER.profile.expertise) :
           /\ MEMORY_MANAGER.profile.expertise[i].skill_level = <<"e", "x", "p", "e", "r", "t">>
           /\ MEMORY_MANAGER.profile.expertise[i].context = <<"a", ":", "b">>

\* the call just made returned after changing the profile
MutationReturned ==
    /\ call' # call \/ MEMORY_MANAGER' # MEMORY_MANAGER \/ profile_file' # profile_file
    /\ outcome' = "returned"
    /\ result'.updated # <<>>

OneAfterTheOther(file, facts_1, facts_2) ==
    LET after_1 == apply_extracted_facts(_load_profile(file), file, facts_1, TRUE).file
    IN  apply_extracted_facts(_load_profile(after_1), after_1, facts_2, TRUE).file

\* C24: when two runs apply facts to the same persisted profile with their
\* load, mutate and save steps interleaved, the document persisted in the
\* end holds the effect of every fact of both runs: it is the document that
\* the two runs leave when one follows the other.
NoLostUpdates ==
    (\A r \in Runs : pc[r] = "done") =>
        profile_file \in { OneAfterTheOther(trace.initial, trace.facts["first"], trace.facts["second"]),
                           OneAfterTheOther(trace.initial, trace.facts["second"], trace.facts["first"]) }

\* C25: after any sequence of add_to_short_term calls on a buffer of
\* capacity N, the buffer holds exactly the min(count, N) most recent turns
\* in the order they were added; twelve turns into a capacity of ten leave
\* turns 3 to 12.
ShortTermBuffer ==
    LET buf == MEMORY_MANAGER.short_term_memory
        N == MEMORY_MANAGER.short_term_size
        kept == IF trace.added < N THEN trace.added ELSE N
    IN  /\ Len(buf) = kept
        /\ \A i \in 1..Len(buf) :
               buf[i] = [user |-> trace.added - kept + i,
                         agent |-> TurnAnswer(trace.added - kept + i)]
        /\ (N = 10 /\ trace.added = 12) =>
               [i \in 1..Len(buf) |-> buf[i].user] = <<3, 4, 5, 6, 7, 8, 9, 10, 11, 12>>

\* twelve turns went into the buffer of capacity ten
ShortTermBufferWitness ==
    /\ MEMORY_MANAGER.short_term_size = 10
    /\ trace.added = 12
    /\ call.op = "add_to_short_term"
    /\ Len(MEMORY_MANAGER.short_term_memory) = 10
    /\ MEMORY_MANAGER.short_term_memory[1].user = 3

\* what the buffer shows of its turns: the message and at most 200
\* characters of the answer
ShownTurns(buf) ==
    [i \in 1..Len(buf) |->
        [user |-> buf[i].user,
         agent_chars |-> IF buf[i].agent.length > 200 THEN 200 ELSE buf[i].agent.length,
         ellipsis |-> buf[i].agent.length > 200]]

\* the call just made was get_relevant_memories_context
MemoriesContextRead ==
    /\ call'.op = "get_relevant_memories_context"
    /\ UNCHANGED MEMORY_MANAGER

\* C26: get_relevant_memories_context returns the short-term context exactly
\* when the long-term search returned nothing, short-term memory is not
\* disabled and the buffer is not empty; when the search returned memories
\* the text is built from them alone; in every other case it is the text
\* that says no relevant past information was found.
MemoryFallback ==
    [][MemoriesContextRead =>
        LET mm == MEMORY_MANAGER
            memories == call'.memories
            falls_back == memories = <<>> /\ ~mm.disable_short_term /\ mm.short_term_memory # <<>>
        IN  /\ result'.heading = "## Recent Conversation History" <=> falls_back
            /\ falls_back => result'.entries = ShownTurns(mm.short_term_memory)
            /\ memories # <<>> =>
                   /\ result'.heading = "## What I Remember"
                   /\ result'.entries = [i \in 1..Len(memories) |->
                                            [text |-> memories[i].user_message,
                                             date |-> memories[i].timestamp,
                                             relevance |-> memories[i].hybrid_score]]
            /\ (memories = <<>> /\ ~falls_back) =>
                   result' = [heading |-> "No relevant past information found.",
                              entries |-> <<>>]]_vars

\* the search found nothing and the recent turns were returned in its place
MemoryFallbackWitness ==
    /\ call.op = "get_relevant_memories_context"
    /\ call.memories = <<>>
    /\ MEMORY_MANAGER.backend_ok
    /\ ~MEMORY_MANAGER.disable_short_term
    /\ Len(MEMORY_MANAGER.short_term_memory) > 1
    /\ result.heading = M_short_term
    /\ Len(result.entries) = Len(MEMORY_MANAGER.short_term_memory)

\* the call just made set or cleared the flag, or read a context
FlagOrRead ==
    call'.op \in {"disable_short_term", "get_short_term_context", "get_relevant_memories_context"}

\* C27: setting the flag, clearing it, and reading a context while it is
\* set leave the buffer as it was; once the flag is cleared the reads return
\* the turns the buffer held before.
DisableFlagFrame ==
    [][FlagOrRead =>
        /\ MEMORY_MANAGER'.short_term_memory = MEMORY_MANAGER.short_term_memory
        /\ (call'.op = "get_short_term_context" /\ ~MEMORY_MANAGER.disable_short_term) =>
               result'.entries = ShownTurns(MEMORY_MANAGER.short_term_memory)
        /\ (call'.op = "get_short_term_context" /\ MEMORY_MANAGER.disable_short_term) =>
               result'.entries \in {<<>>, ShownTurns(MEMORY_MANAGER.short_term_memory)}]_vars

\* a context was read while the flag was set: no turn was returned, and the
\* full buffer still holds its turns
DisableFlagFrameWitness ==
    /\ call.op = "get_short_term_context"
    /\ MEMORY_MANAGER.disable_short_term
    /\ result.entries = <<>>
    /\ trace.added > MEMORY_MANAGER.short_term_size
    /\ Len(MEMORY_MANAGER.short_term_memory) = MEMORY_MANAGER.short_term_size
    /\ MEMORY_MANAGER.short_term_memory[1].user = trace.added - MEMORY_MANAGER.short_term_size + 1

\* the candidates of the last retrieval: the first 2k of the ranking
Candidates == SubSeq(call.ranking, 1, IF Len(call.ranking) < 2 * call.k
                                      THEN Len(call.ranking) ELSE 2 * call.k)

Retrieved == call.op = "retrieve_relevant_memories" /\ MEMORY_MANAGER.backend_ok

\* scores as exact fractions: one is 30 thirtieths, 10 tenths, 3000 units
RecencyOf(d) == recency_score(d.timestamp)
ImportanceOf(d) == importance_score(d.citation_quality)
HybridOf(d) == d.relevance * 150 + RecencyOf(d) * 30 + ImportanceOf(d) * 60

\* C28 as stated: the hybrid score is relevance*0.5 + recency*0.3 +
\* importance*0.2 and lies in [0, 1] whenever the relevance does; recency
\* and importance lie in [0, 1] for every stored timestamp and every tag.
HybridScoreBounds ==
    Retrieved =>
        /\ \A i \in 1..Len(Candidates) :
               LET d == Candidates[i]
               IN  /\ RecencyOf(d) >= 0 /\ RecencyOf(d) <= 30
                   /\ ImportanceOf(d) >= 0 /\ ImportanceOf(d) <= 10
        /\ \A i \in 1..Len(result) :
               /\ \E j \in 1..Len(Candidates) :
                      /\ Candidates[j].user_message = result[i].user_message
                      /\ result[i].hybrid_score = HybridOf(Candidates[j])
               /\ (result[i].relevance_score >= 0 /\ result[i].relevance_score <= 10) =>
                      (result[i].hybrid_score >= 0 /\ result[i].hybrid_score <= 3000)

\* the timestamp is unreadable or not later than the clock's reading
NotAhead(timestamp) == ~timestamp.parsed \/ timestamp.days_old >= 0

\* C28: the hybrid score is relevance*0.5 + recency*0.3 + importance*0.2;
\* importance lies in [0, 1] for every tag and recency is never negative;
\* for a memory whose timestamp is not later than the clock's reading
\* recency is at most 1 and, with relevance in [0, 1], the hybrid score lies
\* in [0, 1].  A timestamp later than the clock's reading gives a recency
\* above 1.
HybridScoreBoundsOfPastMemories ==
    Retrieved =>
        /\ \A i \in 1..Len(Candidates) :
               LET d == Candidates[i]
               IN  /\ RecencyOf(d) >= 0
                   /\ NotAhead(d.timestamp) => RecencyOf(d) <= 30
                   /\ ~NotAhead(d.timestamp) => RecencyOf(d) > 30
                   /\ ImportanceOf(d) >= 0 /\ ImportanceOf(d) <= 10
        /\ \A i \in 1..Len(result) :
               /\ \E j \in 1..Len(Candidates) :
                      /\ Candidates[j].user_message = result[i].user_message
                      /\ result[i].hybrid_score = HybridOf(Candidates[j])
               /\ result[i].hybrid_score >= 0
               /\ (result[i].relevance_score >= 0 /\ result[i].relevance_score <= 10
                     /\ NotAhead(result[i].timestamp)) =>
                      result[i].hybrid_score <= 3000

\* a memory older than the decay window and one without a readable
\* timestamp were scored and returned
HybridScoreBoundsOfPastMemoriesWitness ==
    /\ Retrieved
    /\ Len(result) = 2
    /\ \E i \in 1..Len(result) : result[i].user_message = "stale" /\ result[i].hybrid_score = 240
    /\ \E i \in 1..Len(result) : result[i].user_message = "undated"

\* where a returned memory stood in the similarity search
PlaceOf(m) == CHOOSE j \in 1..Len(Candidates) : Candidates[j].user_message = m.user_message

\* C29: retrieve_relevant_memories returns at most k memories, ordered by
\* hybrid score from high to low, memories of equal score in the order the
\* similarity search gave them; among the 2k candidates of the search no
\* memory left out has a strictly higher hybrid score than a returned one.
MemoryRanking ==
    Retrieved =>
        /\ Len(result) = (IF Len(Candidates) < call.k THEN Len(Candidates) ELSE call.k)
        /\ \A i \in 1..Len(result) :
               \E j \in 1..Len(Candidates) :
                   /\ Candidates[j].user_message = result[i].user_message
                   /\ HybridOf(Candidates[j]) = result[i].hybrid_score
        /\ \A i, j \in 1..Len(result) :
               i < j =>
                   \/ result[i].hybrid_score > result[j].hybrid_score
                   \/ /\ result[i].hybrid_score = result[j].hybrid_score
                      /\ PlaceOf(result[i]) < PlaceOf(result[j])
        /\ \A j \in 1..Len(Candidates) :
               (\A i \in 1..Len(result) : result[i].user_message # Candidates[j].user_message) =>
                   \A i \in 1..Len(result) : HybridOf(Candidates[j]) <= result[i].hybrid_score

\* two memories of equal hybrid score were returned in the order of the
\* search; the candidates that scored lower, one of them first in the
\* search, were left out
MemoryRankingWitness ==
    /\ Retrieved
    /\ call.k = 2
    /\ call.ranking = <<D_stale, D_level, D_older, D_undated>>
    /\ Len(result) = 2
    /\ result[1].user_message = "level"
    /\ result[2].user_message = "older"
    /\ result[1].hybrid_score = result[2].hybrid_score

\* C30: after Retrieve no entry of retrieved_chunks has a relevance score
\* below the floor of 0.3, retrieval_scores has the length of
\* retrieved_chunks, and retrieval_scores[i] is the relevance score of
\* retrieved_chunks[i], also when a candidate below the floor stood between
\* two that were kept.
RelevanceFloorAligned ==
    state # NoState =>
        /\ \A i \in 1..Len(state.retrieved_chunks) :
               state.retrieved_chunks[i].relevance_score >= 30
        /\ Len(state.retrieval_scores) = Len(state.retrieved_chunks)
        /\ \A i \in 1..Len(state.retrieved_chunks) :
               state.retrieval_scores[i] = state.retrieved_chunks[i].relevance_score

\* the stage at pc has just run
StageRan(node) == pc = node /\ trace'.executed[node] = trace.executed[node] + 1

FirstTwo(claims) == SubSeq(claims, 1, IF Len(claims) < 2 THEN Len(claims) ELSE 2)

\* C31: when the run re-enters Retrieve through loop_to_retrieval the query
\* searched is the user query with the first two unsupported claims of the
\* preceding validation, or with its notes when it left no claims; when it
\* re-enters AnalyzeIntent through loop_to_intent the feedback prompt is the
\* one sent; on the first pass neither stage sends anything but the user's
\* own query and the first prompt.
LoopBackFeedback ==
    /\ [][(StageRan("retrieve_documents") /\ trace'.failed # "Document Retrieval") =>
            /\ trace.route = "loop_to_retrieval" =>
                   /\ state.unsupported_claims # <<>> =>
                          /\ trace'.sent.kind = "query_and_claims"
                          /\ trace'.sent.user_query = state.user_query
                          /\ trace'.sent.unsupported_claims = FirstTwo(state.unsupported_claims)
                   /\ state.unsupported_claims = <<>> =>
                          /\ trace'.sent.kind = "query_and_notes"
                          /\ trace'.sent.user_query = state.user_query
                          /\ trace'.sent.validation_notes = state.validation_notes
            /\ trace.executed["validate_response"] = 0 =>
                   /\ trace'.sent.kind = "query"
                   /\ trace'.sent.user_query = state.user_query]_vars
    /\ [][StageRan("analyze_intent") =>
            /\ trace.route = "loop_to_intent" =>
                   /\ trace'.sent.kind = "feedback_prompt"
                   /\ trace'.sent.validation_notes = state.validation_notes
                   /\ trace'.sent.unsupported_claims = state.unsupported_claims
            /\ trace.executed["validate_response"] = 0 =>
                   trace'.sent.kind = "few_shot_prompt"]_vars

\* Retrieve was re-entered with six unsupported claims on record and
\* searched for the query with the first two of them
LoopBackFeedbackWitness ==
    /\ pc = "synthesize_answer"
    /\ trace.route = "loop_to_retrieval"
    /\ Len(state.unsupported_claims) > 2
    /\ trace.sent.kind = "query_and_claims"
    /\ Len(trace.sent.unsupported_claims) = 2

\* C32: after every execution of the Validate stage, by the structured
\* validator or by the heuristic fallback, the state lists at most 5
\* unsupported claims.
UnsupportedClaimsBound ==
    [][StageRan("validate_response") => Len(state'.unsupported_claims) <= 5]_vars

\* the validator named six claims and five were kept
UnsupportedClaimsBoundWitness ==
    /\ pc = "route"
    /\ trace.failed = ""
    /\ state.unsupported_claims = <<"c1", "c2", "c3", "c4", "c5">>

\* the attempt just made ended in an error
AttemptFailed == pc = "attempt" /\ Len(trace'.errors) = Len(trace.errors) + 1
FailedWith == trace'.errors[Len(trace'.errors)]

\* C33: generate and generate_structured make at most 3 attempts per call;
\* an attempt is followed by another only when its error is of the
\* rate-limit class (status 429, ResourceExhausted); any other error ends
\* the call at once; every failed call returns an empty result and none
\* raises.
RetryPolicy ==
    /\ [](trace.attempts <= 3)
    /\ [](outcome # "raised")
    /\ [][AttemptFailed =>
            /\ pc' = "attempt" => FailedWith.status = 429
            /\ FailedWith.status # 429 => (pc' = "idle" /\ result' = "")
            /\ pc' = "idle" => result' \in {"", "None"}]_vars

\* the call just made met a disk that refused the write
WriteRefused ==
    /\ call' # call \/ outcome' # outcome \/ MEMORY_MANAGER' # MEMORY_MANAGER
    /\ ~call'.save_ok

\* C34: a profile file that exists but cannot be read or parsed leaves
\* UserProfileManager with a fresh empty profile, not with an exception; a
\* write that fails during a mutation does not raise to the caller: the
\* call ends as it would have with the write going through, and the file
\* is as it was.
ProfileFailuresContained ==
    /\ [](outcome = "none" =>
            /\ MEMORY_MANAGER.created
            /\ profile_file.status = "unreadable" => MEMORY_MANAGER.profile = UserProfile)
    /\ [][WriteRefused =>
            LET written == apply_extracted_facts(MEMORY_MANAGER.profile, profile_file,
                                                 call'.facts, TRUE)
            IN  /\ (outcome' = "raised") = written.raised
                /\ outcome' = "returned" =>
                       /\ result'.updated = written.updated
                       /\ MEMORY_MANAGER'.profile = written.profile
                /\ profile_file' = profile_file]_vars

\* the manager started empty over an unreadable file, and a mutation whose
\* write was refused returned with the file still unreadable
ProfileFailuresContainedWitness ==
    /\ profile_file.status = "unreadable"
    /\ outcome = "returned"
    /\ ~call.save_ok
    /\ result.updated # <<>>
    /\ Len(MEMORY_MANAGER.profile.preferences) = 1
    /\ MEMORY_MANAGER.profile.expertise = <<>>


\* C35: the guards of the routing rule keep a run to at most two loop-backs:
\* the router never returns max_loops_reached and loop_count never reaches
\* 3, whatever tiers validation returns.
CapNeverReached ==
    /\ trace.route # "max_loops_reached"
    /\ trace.loop_backs <= 2
    /\ state.loop_count < MaxLoops + 1
    /\ result.loop_count < MaxLoops + 1

\* a third validation pass that asks for refinement again and is sent
\* forward by the rule itself, two loop-backs having been taken
CapNeverReachedWitness ==
    /\ outcome = "running"
    /\ trace.loop_backs = 2
    /\ trace.route = "continue"
    /\ state.loop_count = 2
    /\ state.citation_quality = "Poor"
    /\ state.loop_reason = "Quality degraded from previous attempt"


\* C36: the loop_count of a run, and the one its result reports, equals the
\* number of backward transitions (to AnalyzeIntent or Retrieve) taken.
ReportedLoopCount ==
    /\ outcome = "running" => state.loop_count = trace.loop_backs
    /\ outcome = "returned" => result.loop_count = trace.loop_backs

\* a run that looped back twice has returned
ReportedLoopCountWitness ==
    /\ outcome = "returned"
    /\ trace.loop_backs = 2
    /\ result.loop_count = 2


\* C37: when the structured validator raises inside validate_response, the
\* heuristic fallback assigns a tier among Excellent, Good, Fair and Poor,
\* the routing rule is applied to that tier, and the stage does not fail:
\* the wrapper's Unknown is not the outcome.
StructuredValidatorRaised ==
    /\ pc = "validate_response"
    /\ state' = _wrap_with_error_handling(step_4_validate_response(state, <<>>),
                                          step_name("validate_response"))

ValidationFallback ==
    [][StructuredValidatorRaised =>
            /\ state'.citation_quality \in {"Excellent", "Good", "Fair", "Poor"}
            /\ state'.previous_citation_quality = state'.citation_quality
            /\ trace'.failed = ""]_vars


\* C38: whenever the Store stage leaves conversation_stored = true, the
\* long-term backend took the conversation in; and when store_conversation
\* reported a failure (error, failed_init, failed_client_init), the result
\* of the run has conversation_stored = false.
FailureIds == {"error", "failed_init", "failed_client_init"}

StorageOutcomeTruthful ==
    /\ [][(pc = "store_conversation" /\ state'.conversation_stored) =>
            /\ Len(MEMORY_MANAGER'.semantic_memory) = Len(MEMORY_MANAGER.semantic_memory) + 1
            /\ state'.conversation_id \notin FailureIds]_vars
    /\ []((outcome = "returned" /\ result.conversation_id \in FailureIds)
            => ~result.conversation_stored)


\* C39: a run started with skip_memory = true changes no memory store: the
\* short-term buffer, the long-term memory, the profile held by the manager
\* and the profile file are, during and after the run, what they were at
\* its start, even when the exchange is approved.
SkipMemoryIsolation ==
    (outcome \in {"running", "returned"} /\ call.skip_memory) =>
        /\ MEMORY_MANAGER.short_term_memory = trace.start.mm.short_term_memory
        /\ MEMORY_MANAGER.semantic_memory = trace.start.mm.semantic_memory
        /\ MEMORY_MANAGER.profile = trace.start.mm.profile
        /\ profile_file = trace.start.file


\* C40: a turn is added to the short-term buffer and to long-term memory at
\* most once per run, by the Store stage, and only when the Approval stage
\* has set human_approved; without auto_approve, human_approved is set only
\* if what the operator typed is, once trimmed and lower-cased as the stage
\* reads it, one of yes, y or approve.
TurnAdded ==
    \/ MEMORY_MANAGER'.short_term_memory # MEMORY_MANAGER.short_term_memory
    \/ MEMORY_MANAGER'.semantic_memory # MEMORY_MANAGER.semantic_memory

Growth(before, after) == Len(after) - Len(before)

StoreGate ==
    /\ [][(outcome = "running" /\ TurnAdded) =>
            /\ pc = "store_conversation"
            /\ trace.executed["store_conversation"] = 0
            /\ trace.executed["human_approval"] = 1
            /\ state.human_approved
            /\ Growth(MEMORY_MANAGER.short_term_memory, MEMORY_MANAGER'.short_term_memory) = 1
            /\ Growth(MEMORY_MANAGER.semantic_memory, MEMORY_MANAGER'.semantic_memory) \in {0, 1}]_vars
    /\ []((outcome = "running" /\ state.human_approved /\ ~state.auto_approve)
            => lower(strip(trace.typed)) \in {I_yes, I_y, I_approve})

\* the operator typed " Yes ", and the Store stage added the turn to both
\* stores
StoreGateWitness ==
    /\ outcome = "running"
    /\ ~state.auto_approve
    /\ trace.typed = <<" ", "Y", "e", "s", " ">>
    /\ trace.executed["store_conversation"] = 1
    /\ Len(MEMORY_MANAGER.short_term_memory) = Len(trace.start.mm.short_term_memory) + 1
    /\ Len(MEMORY_MANAGER.semantic_memory) = Len(trace.start.mm.semantic_memory) + 1

====
